---- MODULE Spec2Model ----
(***************************************************************************)
(* Model of the Proustite robot server: the UDP command listener           *)
(* (server.py), the Layer 2 controller (layer2_controller.py) and the      *)
(* robot interface with its ESP32 telemetry reader (robot_interface.py).   *)
(*                                                                         *)
(* Numbers.  A Python float is modelled as an integer count of 1/10000     *)
(* (so 1.0 is 10000, the deadband 0.01 is 100, pi is 31416); time.time()   *)
(* is an integer count of milliseconds.  None is the empty tuple and a     *)
(* float value h held in an optional field is the tuple <<h>>.             *)
(***************************************************************************)
EXTENDS Integers, Sequences, FiniteSets, TLC

(***************************************************************************)
(* Bounds of the model.                                                    *)
(***************************************************************************)
\* number of clock advances explored after construction
MaxClock == 3
\* number of telemetry frames the reader may commit, in the specification
\* of the whole server
MaxCommits == 1
\* the same, in the specification of the sensor link
MaxFrames == 3
\* number of set_velocity calls, in the specification of the two threads
MaxCalls == 2
\* number of frames committed, in the specification of the drift history
MaxLog == 11
\* number of frames committed, in the specification of the heading
MaxTurns == 3
\* number of steps a program takes while running, in the specification of
\* the process
MaxSteps == 3
\* the largest angle normalised, in eighths of a turn
MaxEighths == 12
\* number of short clock advances, and of waits of a whole game duration, in
\* the specification of the game
MaxGameTicks == 2
MaxWaits == 2
\* number of frames committed, in the specification of one tick against
\* the other threads
MaxTickCommits == 2

(***************************************************************************)
(* Program constants.                                                      *)
(***************************************************************************)
\* layer2_controller.py:49  self.command_timeout = 1.0 (seconds)
CommandTimeout == 1000
\* layer2_controller.py:69  abs(omega) > 0.01 in set_velocity
DeadbandSet == 100
\* layer2_controller.py:126  abs(self.desired_omega) < 0.01 in update
DeadbandTick == 100
\* layer2_controller.py:137  max_correction = 1.0
MaxCorrection == 10000
\* server.py:40  Layer2Controller(robot, drift_gain=2.0)
DriftGain == 2
\* robot_interface.py:51  deque(maxlen=10)
DriftHistoryMaxLen == 10
\* robot_interface.py:138  len(current_reading) >= 7
MinFields == 7
\* robot_interface.py:65 and :75  time.sleep(2) after opening each port
ConnectDelay == 2000
\* the range bound of math.atan2, pi, in units of 1/10000
Pi == 31416
\* the rounding of a floating-point result: one unit in the last place
Ulp == 1

\* game_logic.py: the parameters of GameLogic.__init__ and the thresholds of
\* GameLogic.update (speeds in units of 1/10000, times in ms, areas and
\* positions in pixels)
MaxBalls == 3
GameDuration == 150000
SearchRotationSpeed == 20000
ApproachSpeed == 7500
\* approach_kP = 0.003 per pixel
ApproachKP == 30
DepositTime == 3000
DepositBackupSpeed == -6000
\* bottom_threshold = 0.85, in hundredths
BottomThreshold == 85
GoalCenterTolerance == 100
\* search pattern: cycle_time = search_time % 5.5, spin while < 4.0,
\* otherwise drive with omega 0.5
SearchCycle == 5500
SearchSpin == 4000
SearchDriveOmega == 5000
\* area > 32000 of APPROACH_BALL, area > 100000 of APPROACH_GOAL
CloseBallArea == 32000
CloseGoalArea == 100000
\* the dwell times of COLLECTING (4.0 s) and LEAVE_GOAL (1.6 s)
CollectTime == 4000
LeaveGoalTime == 1600
\* the frame of the camera, 640 x 480
FrameWidth == 640
FrameHeight == 480

\* the clock advances in steps of half the watchdog timeout, so that an
\* elapsed time of exactly command_timeout is reached
TimeStep == CommandTimeout \div 2
StartTime == 2 * ConnectDelay
MaxNow == StartTime + MaxClock * TimeStep

None == << >>
Some(x) == << x >>

Abs(x) == IF x < 0 THEN -x ELSE x
Max2(a, b) == IF a > b THEN a ELSE b
Min2(a, b) == IF a < b THEN a ELSE b

VARIABLES
    \* ---- Layer2Controller
    desired_vx, desired_vy, desired_omega,
    target_heading,
    drift_compensation_enabled,
    ball_collector_mode,
    last_command_time,
    \* ---- RobotInterface
    latest_imu,
    heading,
    last_heading_update,
    drift_history,
    current_reading,
    esp32_running,
    \* ---- server.py main
    server,
    \* ---- environment: the wall clock, and what the last step wrote to
    \*      the two serial ports
    now,
    nucleo_tx,
    esp32_tx,
    \* ---- history (not program state)
    \* the operation of the last step
    last_op,
    \* the arguments and the time of the last set_velocity call, and the
    \* operation that wrote the desired velocity last
    last_intent,
    last_intent_at,
    intent_src,
    \* the last two operations that wrote, or could have written, to the
    \* accessory motor: [op, mode, cached, n] with the cached mode before
    \* the call and the number of lines it wrote
    acc_calls,
    \* the number of frames committed
    n_commits,
    \* ---- the two threads of server.py statement by statement: the position
    \*      of the command thread inside set_velocity with the arguments of
    \*      the call, the position of the control thread inside update with
    \*      its local variables
    pc_cmd, sv_args,
    pc_ctl, cmd_vx, cmd_vy, cmd_omega,
    \* ---- history of the threads: the number of set_velocity calls begun,
    \*      the call that wrote each field of the desired velocity last, and
    \*      the call whose value the running tick read for vx, vy, omega and
    \*      for the test of the deadband
    n_calls, wrote_by, read_from,
    \* ---- history of the sensor link: the gyro_z of every frame committed
    \*      since the last reset of the heading, oldest first
    gyro_log,
    \* ---- the normalisation of angles on its own: an angle, what
    \*      _normalize_angle returns for it, and what it returns for that
    angle_in, angle_out, angle_twice,
    \* ---- the process from its start to its end: the program that runs
    \*      (server.py or main.py), how far it has come, the one thing that
    \*      fails in this run, everything that happened on each serial port
    \*      since it was opened, whether the control loop thread was
    \*      started, the GameLogic object, and the number of steps taken
    \*      while running
    program, phase, fault, nucleo_log, esp32_log, control_started, game,
    n_steps,
    \* ---- history of the game: the frame the last update was given, as its
    \*      detections, and the GameLogic object before the last call
    view, game_was,
    \* ---- the threads and the shutdown statement by statement: whether the
    \*      reader thread and the control loop thread are alive, the flag
    \*      running of server.py, the position of the main thread inside the
    \*      shutdown, the position of the reader inside a commit, the thread
    \*      that holds imu_lock, the exception that left the last update,
    \*      the locals of update and get_drift_rate (current_heading,
    \*      drift_rate, and the drift history as sum() saw it), and the
    \*      exception the handler of the reader caught last
    reader_alive, control_alive, running, pc_main, pc_rd, imu_lock,
    tick_error, cur_heading, tk_drift, dr_hist, reader_error

ctlVars == << desired_vx, desired_vy, desired_omega, target_heading,
              drift_compensation_enabled, ball_collector_mode,
              last_command_time >>
imuVars == << latest_imu, heading, last_heading_update, drift_history >>
readerVars == << current_reading, esp32_running, n_commits >>
histVars == << last_intent, last_intent_at, intent_src >>
threadVars == << pc_cmd, sv_args, pc_ctl, cmd_vx, cmd_vy, cmd_omega,
                 n_calls, wrote_by, read_from >>
\* what the specifications of the whole server leave alone
angleVars == << angle_in, angle_out, angle_twice >>
procVars == << program, phase, fault, nucleo_log, esp32_log,
               control_started, game, n_steps >>
gameHist == << view, game_was >>
lifeVars == << reader_alive, control_alive, running, pc_main, pc_rd,
               imu_lock, tick_error, cur_heading, tk_drift, dr_hist,
               reader_error >>
extVars == << threadVars, gyro_log, angleVars, procVars, gameHist, lifeVars >>
\* the variables of extVars outside each group
notThread == << gyro_log, angleVars, procVars, gameHist, lifeVars >>
notDrift == << threadVars, angleVars, procVars, gameHist, lifeVars >>
notAngle == << threadVars, gyro_log, procVars, gameHist, lifeVars >>
notProc == << threadVars, gyro_log, angleVars, gameHist, lifeVars >>
notLife == << threadVars, gyro_log, angleVars, procVars, gameHist >>
otherVars == << acc_calls, extVars >>
vars == << desired_vx, desired_vy, desired_omega, target_heading,
           drift_compensation_enabled, ball_collector_mode,
           last_command_time, latest_imu, heading, last_heading_update,
           drift_history, current_reading, esp32_running, server, now,
           nucleo_tx, esp32_tx, last_op, last_intent, last_intent_at,
           intent_src, acc_calls, n_commits, extVars >>

(***************************************************************************)
(* Text and numbers.  float(), int(), str.lower() and the character class  *)
(* [-\d.]+ of the telemetry regular expressions, as tables over the        *)
(* tokens the model uses.                                                  *)
(***************************************************************************)
\* float(tok): the value, for the tokens float() accepts
FloatOf ==
    [ t \in {"0.0", "1.0", "0.5", "-0.5", "0.01", "0.0004", "0.2", "-0.2",
             "9.8", "25.5", "0.7854", "-0.7854"} |->
        CASE t = "0.0"    -> 0
          [] t = "1.0"    -> 10000
          [] t = "0.5"    -> 5000
          [] t = "-0.5"   -> -5000
          [] t = "0.01"   -> 100
          [] t = "0.0004" -> 4
          [] t = "0.2"    -> 2000
          [] t = "-0.2"   -> -2000
          [] t = "9.8"    -> 98000
          [] t = "25.5"   -> 255000
          [] t = "0.7854" -> 7854
          [] t = "-0.7854" -> -7854 ]

\* float(tok) returns (it raises ValueError otherwise)
IsFloat(tok) == tok \in DOMAIN FloatOf

\* tokens matched by [-\d.]+ : every decimal literal, and strings of the same
\* characters that float() rejects
NumLike == { "0.0", "1.0", "0.5", "-0.5", "0.01", "0.0004", "0.2", "-0.2",
             "9.8", "25.5", "0.7854", "-0.7854", "1.2.3", "-" }

\* tokens matched by \d+, with int(tok)
IntOf == [ t \in {"100", "200"} |-> IF t = "100" THEN 100 ELSE 200 ]

\* str.lower()
Lower(tok) ==
    CASE tok = "FORWARD" -> "forward"
      [] tok = "Stop"    -> "stop"
      [] OTHER           -> tok

\* f"{x:.3f}": x rounded to a multiple of 0.001 (10 units); the inputs of the
\* model are never halfway between two multiples
Format3(x) ==
    LET r == x % 10
    IN  IF r < 5 THEN x - r ELSE x - r + 10

(***************************************************************************)
(* What goes out on the serial ports.                                      *)
(***************************************************************************)
\* RobotInterface.send_velocity_command: the arguments of the call and the
\* fields of the line written, "VEL,{vx:.3f},{vy:.3f},{omega:.3f}\n"
VelMsg(vx, vy, omega) ==
    [ verb |-> "VEL", args |-> << vx, vy, omega >>,
      wire |-> << Format3(vx), Format3(vy), Format3(omega) >> ]

\* RobotInterface.stop_movement: b"STOP\n"
StopMsg == [ verb |-> "STOP", args |-> << >>, wire |-> << >> ]

\* RobotInterface.set_ball_collector: command_map
CommandMap ==
    [ m \in {"forward", "reverse", "stop"} |->
        CASE m = "forward" -> "R"
          [] m = "reverse" -> "F"
          [] m = "stop"    -> "S" ]

\* RobotInterface.set_ball_collector(mode): the lines written to the ESP32
\* (none for a mode that command_map does not hold)
AccWrite(mode) ==
    IF Lower(mode) \in DOMAIN CommandMap
    THEN << CommandMap[Lower(mode)] >>
    ELSE << >>

\* RobotInterface.close() without the STOP line (a variant, not the
\* program's)
CloseNucleoTx_NoStop == << >>

\* RobotInterface.close(): what it writes to the Nucleo
CloseNucleoTx == << StopMsg >>

\* RobotInterface.close(): what it writes to the ESP32, through
\* set_ball_collector('stop') first and in the block that closes the port
CloseEsp32Tx == AccWrite("stop") \o << "S" >>

\* serial.Serial(...) returned, and close() of the port returned
OpenEv == [ verb |-> "open", args |-> << >>, wire |-> << >> ]
CloseEv == [ verb |-> "close", args |-> << >>, wire |-> << >> ]

\* what can fail in one run: opening a port (serial.Serial raises
\* SerialException), every write to a port, closing a port, opening the
\* camera (main.py)
NoFault == << "none", "none" >>
Faults ==
    { NoFault, << "nucleo", "open" >>, << "esp32", "open" >>,
      << "nucleo", "write" >>, << "esp32", "write" >>,
      << "nucleo", "close" >>, << "esp32", "close" >>,
      << "camera", "open" >> }

(***************************************************************************)
(* Angles.                                                                 *)
(***************************************************************************)
\* an angle left as it is, never wrapped (a variant, not the program's)
Atan2SinCos_NoWrap(a) == a

\* math.atan2(math.sin(a), math.cos(a)): the angle congruent to a modulo
\* 2*pi in [-pi, pi]; at an odd multiple of pi the computed sine keeps the
\* sign of a, so the result is pi for a > 0 and -pi for a < 0
Atan2SinCos(a) ==
    LET m == ((a + Pi) % (2 * Pi)) - Pi
    IN  IF m = -Pi /\ a > 0 THEN Pi ELSE m

\* the one-argument arctangent of the tangent, with its range of half a
\* turn (a variant, not the program's)
NormalizeAngle_OneArgument(a) ==
    ((a + (Pi \div 2)) % Pi) - (Pi \div 2)

\* Layer2Controller._normalize_angle
NormalizeAngle(a) == Atan2SinCos(a)

\* what the floating-point computation of _normalize_angle may return for an
\* angle: sin, cos and atan2 each round their result, so the value is the
\* normalised angle to within one unit in the last place, inside the range
\* of atan2
NormalizeRounded(a) ==
    { Max2(-Pi, Min2(Pi, NormalizeAngle(a) + e)) : e \in -Ulp..Ulp }

(***************************************************************************)
(* RobotInterface: the telemetry reader.                                   *)
(*                                                                         *)
(* A line of telemetry is [label, toks]: the label the line starts with    *)
(* ("time", "accel", "gyro", "temp", "---" for the sentinel, "" for an     *)
(* empty line, anything else for noise) and the texts found where the      *)
(* numbers should be.  The reader's state is the record                    *)
(* [cr, imu, heading, lhu, hist]: current_reading, latest_imu, heading,    *)
(* last_heading_update and drift_history.                                  *)
(***************************************************************************)
EmptyReading == [ k \in {} |-> 0 ]

AllFields == { "timestamp", "accel_x", "accel_y", "accel_z",
               "gyro_x", "gyro_y", "gyro_z", "temp_c" }

\* latest_imu as __init__ leaves it
InitialImu == [ k \in AllFields |-> 0 ]

\* cr with cr[keys[i]] = vals[i] for i in 1..n
Assign(cr, keys, vals, n) ==
    [ k \in DOMAIN cr \cup { keys[i] : i \in 1..n } |->
        IF \E i \in 1..n : keys[i] = k
        THEN vals[CHOOSE i \in 1..n : keys[i] = k]
        ELSE cr[k] ]

\* the number of leading tokens float() accepts
RECURSIVE GoodPrefix(_)
GoodPrefix(toks) ==
    IF toks = << >> \/ ~IsFloat(Head(toks))
    THEN 0
    ELSE 1 + GoodPrefix(Tail(toks))

\* a line whose regular expression matched: its groups are converted and
\* stored one after the other, and the first float() that raises leaves the
\* earlier ones stored
StoreFloats(cr, keys, toks) ==
    LET n == GoodPrefix(toks)
    IN  [ cr |-> Assign(cr, keys, [ i \in 1..n |-> FloatOf[toks[i]] ], n),
          raised |-> n < Len(toks) ]

\* re.search of a line with n numeric groups
Matches(line, n) ==
    /\ Len(line.toks) = n
    /\ \A i \in 1..n : line.toks[i] \in NumLike

\* the labelled lines of _esp32_reader_thread: the new current_reading and
\* whether an exception was raised
ParseLine(cr, line) ==
    CASE line.label = "time" ->
            IF Len(line.toks) = 1 /\ line.toks[1] \in DOMAIN IntOf
            THEN [ cr |-> Assign(cr, << "timestamp" >>,
                                 << IntOf[line.toks[1]] >>, 1),
                   raised |-> FALSE ]
            ELSE [ cr |-> cr, raised |-> FALSE ]
      [] line.label = "accel" ->
            IF Matches(line, 3)
            THEN StoreFloats(cr, << "accel_x", "accel_y", "accel_z" >>,
                             line.toks)
            ELSE [ cr |-> cr, raised |-> FALSE ]
      [] line.label = "gyro" ->
            IF Matches(line, 3)
            THEN StoreFloats(cr, << "gyro_x", "gyro_y", "gyro_z" >>,
                             line.toks)
            ELSE [ cr |-> cr, raised |-> FALSE ]
      [] line.label = "temp" ->
            IF Matches(line, 1)
            THEN StoreFloats(cr, << "temp_c" >>, line.toks)
            ELSE [ cr |-> cr, raised |-> FALSE ]
      [] OTHER -> [ cr |-> cr, raised |-> FALSE ]

\* a deque that stops taking values when it is full, keeping the oldest (a
\* variant, not the program's)
DequeAppend_KeepOldest(h, x) ==
    IF Len(h) >= DriftHistoryMaxLen THEN h ELSE Append(h, x)

\* deque(maxlen=10).append
DequeAppend(h, x) ==
    IF Len(h) >= DriftHistoryMaxLen THEN Append(Tail(h), x) ELSE Append(h, x)

\* RobotInterface._update_heading at time t, latest_imu holding gyro_z
UpdateHeading(rs, t) ==
    LET dt == t - rs.lhu
        gyro_z == rs.imu["gyro_z"]
    IN  [ rs EXCEPT
            !.heading = Atan2SinCos(rs.heading + (gyro_z * dt) \div 1000),
            !.hist = DequeAppend(rs.hist, gyro_z),
            !.lhu = t ]

\* the completeness test of the sentinel branch
FrameComplete(cr) == Cardinality(DOMAIN cr) >= MinFields

\* the sentinel line "---" read at time t
Sentinel(rs, t) ==
    IF FrameComplete(rs.cr)
    THEN IF "gyro_z" \in DOMAIN rs.cr
         THEN [ UpdateHeading([ rs EXCEPT !.imu = rs.cr ], t)
                  EXCEPT !.cr = EmptyReading ]
         \* latest_imu['gyro_z'] raises KeyError after latest_imu was
         \* replaced; the handler of the loop catches it and the reset of
         \* current_reading is skipped
         ELSE [ rs EXCEPT !.imu = rs.cr ]
    ELSE [ rs EXCEPT !.cr = EmptyReading ]

\* one line read by the reader at time t
ReadLineFn(rs, line, t) ==
    IF line.label = "---"
    THEN Sentinel(rs, t)
    ELSE [ rs EXCEPT !.cr = ParseLine(rs.cr, line).cr ]

\* the lines of a sequence read one after the other at time t
RECURSIVE ReadLinesFn(_, _, _)
ReadLinesFn(rs, lines, t) ==
    IF lines = << >>
    THEN rs
    ELSE ReadLinesFn(ReadLineFn(rs, Head(lines), t), Tail(lines), t)

\* a frame commit: the sentinel replaced latest_imu
Committed(rs, line) == line.label = "---" /\ FrameComplete(rs.cr)

\* RobotInterface.get_drift_rate
DriftRateOf(h) ==
    LET RECURSIVE Sum(_)
        Sum(q) == IF q = << >> THEN 0 ELSE Head(q) + Sum(Tail(q))
    IN  IF Len(h) = 0 THEN 0 ELSE Sum(h) \div Len(h)

(***************************************************************************)
(* Layer2Controller.                                                       *)
(***************************************************************************)
\* get_drift_rate() of the robot interface
DriftRate == DriftRateOf(drift_history)

\* set_velocity: target_heading after a call with this omega
LatchTarget(omega) ==
    IF Abs(omega) > DeadbandSet
    THEN None
    ELSE IF target_heading = None THEN Some(heading) ELSE target_heading

\* a watchdog that trips only after twice command_timeout (a variant, not
\* the program's test)
WatchdogExpired_TwiceTimeout ==
    now - last_command_time > 2 * CommandTimeout

\* update: the watchdog test, time.time() - last_command_time > command_timeout
WatchdogExpired == now - last_command_time > CommandTimeout

\* a correction that is not limited (a variant, not the program's)
Clamp_Unlimited(c) == c

\* update: max(-max_correction, min(max_correction, omega_correction))
Clamp(c) == Max2(-MaxCorrection, Min2(MaxCorrection, c))

\* update: what is added to cmd_omega
OmegaCorrection ==
    IF /\ drift_compensation_enabled
       /\ Abs(desired_omega) < DeadbandTick
       /\ target_heading # None
    THEN Clamp(DriftGain * NormalizeAngle(target_heading[1] - heading)
               - DriftRate)
    ELSE 0

\* a tick that sends vy where vx belongs (a variant, not the program's)
UpdateTx_SwappedAxes ==
    IF WatchdogExpired
    THEN << StopMsg >>
    ELSE << VelMsg(desired_vy, desired_vx, desired_omega + OmegaCorrection) >>

\* update: what one call writes to the Nucleo
UpdateTx ==
    IF WatchdogExpired
    THEN << StopMsg >>
    ELSE << VelMsg(desired_vx, desired_vy, desired_omega + OmegaCorrection) >>

\* a set_ball_collector that ignores the cached mode (a variant, not the
\* program's)
CollectorTx_NoCache(mode) == AccWrite(mode)

\* set_ball_collector: what one call writes to the ESP32
CollectorTx(mode) ==
    IF mode # ball_collector_mode THEN AccWrite(mode) ELSE << >>

\* an emergency stop that goes through the cached mode of the controller (a
\* variant, not the program's)
StopEsp32Tx_Cached == CollectorTx("stop")

\* stop: what the emergency stop writes to the ESP32, by calling
\* robot.set_ball_collector('stop') directly
StopEsp32Tx == AccWrite("stop")

(***************************************************************************)
(* GameLogic (game_logic.py).  The object is the record                    *)
(* [state, state_start_time, game_start_time, balls_collected,             *)
(*  ball_was_centered, goal_was_centered, last_collector_mode,             *)
(*  target_ball, target_goal_color]; a detection is [label, center, area]  *)
(* and a frame is the sequence of detections detect_objects returns for    *)
(* it.  A call of a method is the record [g, nucleo, esp32]: the object    *)
(* after the call and what the call wrote to each port, in order.          *)
(***************************************************************************)
\* GameLogic.__init__ (target_ball is not set until a ball is seen)
NewGame(color) ==
    [ state |-> "IDLE", state_start_time |-> 0, game_start_time |-> 0,
      balls_collected |-> 0, ball_was_centered |-> FALSE,
      goal_was_centered |-> FALSE, last_collector_mode |-> "None",
      target_ball |-> << >>, target_goal_color |-> color ]

\* a call that wrote nothing
Silent(g) == [ g |-> g, nucleo |-> << >>, esp32 |-> << >> ]

\* two calls one after the other
AndThen(r1, r2) ==
    [ g |-> r2.g, nucleo |-> r1.nucleo \o r2.nucleo,
      esp32 |-> r1.esp32 \o r2.esp32 ]

\* a set_ball_collector that does nothing (a variant, not the program's)
GameSetCollector_Never(g, mode) == Silent(g)

\* GameLogic.set_ball_collector
GameSetCollector(g, mode) ==
    IF mode # g.last_collector_mode
    THEN [ g |-> [ g EXCEPT !.last_collector_mode = mode ],
           nucleo |-> << >>, esp32 |-> AccWrite(mode) ]
    ELSE Silent(g)

\* a set_state that leaves state_start_time alone (a variant, not the
\* program's)
GameSetState_KeepsTime(g, new_state, t) == [ g EXCEPT !.state = new_state ]

\* GameLogic.set_state at time t
GameSetState(g, new_state, t) ==
    [ g EXCEPT !.state = new_state, !.state_start_time = t ]

\* a velocity command with vx and vy exchanged (a variant, not the
\* program's)
GameSend_Strafing(g, vx, vy, omega) ==
    [ g |-> g, nucleo |-> << VelMsg(vy, vx, omega) >>, esp32 |-> << >> ]

\* robot.send_velocity_command called by GameLogic
GameSend(g, vx, vy, omega) ==
    [ g |-> g, nucleo |-> << VelMsg(vx, vy, omega) >>, esp32 |-> << >> ]

\* robot.stop_movement called by GameLogic
GameStopMovement(g) ==
    [ g |-> g, nucleo |-> << StopMsg >>, esp32 |-> << >> ]

\* GameLogic.start_game at time t
StartGame(g, t) ==
    GameSetState([ g EXCEPT !.game_start_time = t, !.balls_collected = 0 ],
                 "SEARCH_BALL", t)

\* GameLogic.stop_game at time t
StopGame(g, t) ==
    AndThen(GameStopMovement(GameSetState(g, "IDLE", t)),
            GameSetCollector(GameSetState(g, "IDLE", t), "stop"))

\* GameLogic.cleanup
Cleanup(g) == AndThen(GameStopMovement(g), GameSetCollector(g, "stop"))

\* the filter of update for balls
IsBall(d) == d.label = "Ball"

\* a filter that takes the goals of both colours (a variant, not the
\* program's)
IsTargetGoal_AnyGoal(g, d) == d.label \in { "Blue Goal", "Yellow Goal" }

\* the filter of update for goals of the target colour
IsTargetGoal(g, d) ==
    \/ g.target_goal_color = "blue" /\ d.label = "Blue Goal"
    \/ g.target_goal_color = "yellow" /\ d.label = "Yellow Goal"

\* the first detection whatever its area (a variant, not the program's)
MaxByArea_First(ds, best) == IF ds = << >> THEN best ELSE << Head(ds) >>

\* max(detections, key=lambda d: d['area']): the first of the largest
\* area, in the order of the list; best is << >> until one is found
RECURSIVE MaxByArea(_, _)
MaxByArea(ds, best) ==
    IF ds = << >>
    THEN best
    ELSE LET d == Head(ds)
         IN  IF best = << >> \/ d.area > best[1].area
             THEN MaxByArea(Tail(ds), << d >>)
             ELSE MaxByArea(Tail(ds), best)

\* the largest ball of a frame, << >> when there is none
LargestBall(frame) == MaxByArea(SelectSeq(frame, IsBall), << >>)

\* the first goal of the target colour of a frame (a variant, not the
\* program's)
LargestTargetGoal_First(g, frame) ==
    LET goals == SelectSeq(frame, LAMBDA d : IsTargetGoal(g, d))
    IN  IF goals = << >> THEN << >> ELSE << Head(goals) >>

\* the largest goal of the target colour of a frame, << >> when there is
\* none
LargestTargetGoal(g, frame) ==
    MaxByArea(SelectSeq(frame, LAMBDA d : IsTargetGoal(g, d)), << >>)

\* a collection that is not counted (a variant, not the program's)
AfterCollected_NoCount(g, t) == GameSetState(g, "SEARCH_BALL", t)

\* a collection that goes for the goal one ball late (a variant, not the
\* program's)
AfterCollected_OneMore(g, t) ==
    LET h == [ g EXCEPT !.balls_collected = g.balls_collected + 1,
                        !.ball_was_centered = FALSE ]
    IN  IF h.balls_collected > MaxBalls
        THEN GameSetState(h, "SEARCH_GOAL", t)
        ELSE GameSetState(h, "SEARCH_BALL", t)

\* the transition out of APPROACH_BALL and COLLECTING after a collection
AfterCollected(g, t) ==
    LET h == [ g EXCEPT !.balls_collected = g.balls_collected + 1,
                        !.ball_was_centered = FALSE ]
    IN  IF h.balls_collected >= MaxBalls
        THEN GameSetState(h, "SEARCH_GOAL", t)
        ELSE GameSetState(h, "SEARCH_BALL", t)

\* a deposit that keeps the count (a variant, not the program's)
AfterDeposited_KeepsCount(g, t) == GameSetState(g, "LEAVE_GOAL", t)

\* the transition out of DEPOSITING when the dwell time is over
AfterDeposited(g, t) ==
    GameSetState([ g EXCEPT !.balls_collected = 0 ], "LEAVE_GOAL", t)

\* update, lines 94-224: the branch of the state machine for g.state
StateMachine(g, frame, t) ==
    LET ball == LargestBall(frame)
        goal == LargestTargetGoal(g, frame)
        cx == FrameWidth \div 2
    IN  CASE g.state = "IDLE" -> GameStopMovement(g)
          [] g.state = "SEARCH_BALL" ->
                LET r == GameSetCollector(g, "forward")
                IN  IF ball # << >>
                    THEN AndThen(r, Silent(GameSetState(
                             [ r.g EXCEPT !.target_ball = ball,
                                          !.ball_was_centered = FALSE ],
                             "APPROACH_BALL", t)))
                    ELSE IF (t - g.state_start_time) % SearchCycle < SearchSpin
                         THEN AndThen(r, GameSend(r.g, 0, 0,
                                                  SearchRotationSpeed))
                         ELSE AndThen(r, GameSend(r.g, ApproachSpeed, 0,
                                                  SearchDriveOmega))
          [] g.state = "APPROACH_BALL" ->
                IF ball = << >>
                THEN IF g.ball_was_centered
                     THEN Silent(AfterCollected(g, t))
                     ELSE Silent(GameSetState(g, "SEARCH_BALL", t))
                ELSE LET b == ball[1]
                         h == IF b.center[2] * 100
                                     > FrameHeight * BottomThreshold
                              THEN [ g EXCEPT !.ball_was_centered = TRUE ]
                              ELSE g
                         omega == (cx - b.center[1]) * ApproachKP
                     IN  IF b.area > CloseBallArea
                         THEN AndThen(GameSend(h, ApproachSpeed \div 2, 0, 0),
                                      Silent(GameSetState(h, "COLLECTING", t)))
                         ELSE AndThen(GameSend(h, ApproachSpeed, 0, omega),
                                      GameSetCollector(h, "forward"))
          [] g.state = "COLLECTING" ->
                LET r == AndThen(GameSend(g, ApproachSpeed, 0, 0),
                                 GameSetCollector(g, "forward"))
                IN  IF t - g.state_start_time > CollectTime
                    THEN AndThen(r, Silent(AfterCollected(r.g, t)))
                    ELSE r
          [] g.state = "SEARCH_GOAL" ->
                LET r == GameSetCollector(g, "forward")
                IN  IF goal # << >>
                    THEN AndThen(r, Silent(GameSetState(
                             [ r.g EXCEPT !.goal_was_centered = FALSE ],
                             "APPROACH_GOAL", t)))
                    ELSE AndThen(r, GameSend(r.g, 0, 0, SearchRotationSpeed))
          [] g.state = "APPROACH_GOAL" ->
                LET r == GameSetCollector(g, "forward")
                IN  IF goal = << >>
                    THEN AndThen(r, Silent(GameSetState(r.g, "SEARCH_GOAL", t)))
                    ELSE LET gl == goal[1]
                             h == IF Abs(gl.center[1] - cx)
                                         < GoalCenterTolerance
                                  THEN [ r.g EXCEPT !.goal_was_centered = TRUE ]
                                  ELSE r.g
                             omega == (cx - gl.center[1]) * ApproachKP
                         IN  IF h.goal_was_centered /\ gl.area > CloseGoalArea
                             THEN AndThen(r, Silent(GameSetState(
                                      h, "DEPOSITING", t)))
                             ELSE AndThen(r, GameSend(h, ApproachSpeed, 0,
                                                      omega))
          [] g.state = "DEPOSITING" ->
                LET r == AndThen(GameSetCollector(g, "reverse"),
                                 GameSend(GameSetCollector(g, "reverse").g,
                                          DepositBackupSpeed, 0, 0))
                IN  IF t - g.state_start_time > DepositTime
                    THEN AndThen(r, Silent(AfterDeposited(r.g, t)))
                    ELSE r
          [] g.state = "LEAVE_GOAL" ->
                LET r == AndThen(GameSetCollector(g, "forward"),
                                 GameSend(GameSetCollector(g, "forward").g,
                                          0, 0, SearchRotationSpeed))
                IN  IF t - g.state_start_time > LeaveGoalTime
                    THEN AndThen(r, Silent(GameSetState(r.g, "SEARCH_BALL", t)))
                    ELSE r

\* an update that never looks at the game time (a variant, not the
\* program's)
GameUpdateFn_NoDeadline(g, frame, t) == StateMachine(g, frame, t)

\* GameLogic.update(frame) at time t, for a frame that is not None: the
\* check of the game time, then the state machine
GameUpdateFn(g, frame, t) ==
    IF g.state # "IDLE" /\ t - g.game_start_time > GameDuration
    THEN AndThen(StopGame(g, t), StateMachine(StopGame(g, t).g, frame, t))
    ELSE StateMachine(g, frame, t)

(***************************************************************************)
(* server.py: decoding a datagram.  A datagram is [utf8, parts]: whether   *)
(* data.decode() succeeds, and command.split(',') of the stripped text.    *)
(***************************************************************************)
CollectorModes == { "forward", "reverse", "stop" }

\* a VEL branch that accepts extra fields (a variant, not the program's)
VelArityOk_AtLeast(parts) == Len(parts) >= 4

\* len(parts) == 4 of the VEL branch
VelArityOk(parts) == Len(parts) = 4

\* the call of the controller that main() makes for a command, "rejected"
\* for the branches that only print
Command(parts) ==
    CASE Len(parts) >= 2 /\ parts[1] = "VEL" ->
            IF VelArityOk(parts)
            THEN IF IsFloat(parts[2]) /\ IsFloat(parts[3]) /\ IsFloat(parts[4])
                 THEN [ call |-> "set_velocity",
                        args |-> << FloatOf[parts[2]], FloatOf[parts[3]],
                                    FloatOf[parts[4]] >> ]
                 ELSE [ call |-> "rejected", args |-> << >> ]
            ELSE [ call |-> "rejected", args |-> << >> ]
      [] parts = << "STOP" >> -> [ call |-> "stop", args |-> << >> ]
      [] Len(parts) >= 2 /\ parts[1] = "COLLECTOR" ->
            IF Len(parts) = 2
            THEN IF Lower(parts[2]) \in CollectorModes
                 THEN [ call |-> "set_ball_collector",
                        args |-> << Lower(parts[2]) >> ]
                 ELSE [ call |-> "rejected", args |-> << >> ]
            ELSE [ call |-> "rejected", args |-> << >> ]
      [] parts = << "RESET_HEADING" >> ->
            [ call |-> "reset_heading", args |-> << >> ]
      [] parts = << "STATUS" >> -> [ call |-> "status", args |-> << >> ]
      [] OTHER -> [ call |-> "rejected", args |-> << >> ]

\* the payloads that arrive
Payloads ==
    { << "VEL", "1.0", "0.0", "0.0" >>,
      << "VEL", "0.0", "0.0", "0.5" >>,
      << "VEL", "0.0004", "-0.5", "0.01" >>,
      << "VEL", "1.0", "0.0" >>,
      << "VEL", "1.0", "0.0", "0.5", "0.5" >>,
      << "VEL", "1.0", "abc", "0.5" >>,
      << "VEL", "0.5", "0.5", "" >>,
      << "VEL" >>,
      << "STOP" >>,
      << "STOP", "1.0" >>,
      << "COLLECTOR", "forward" >>,
      << "COLLECTOR", "FORWARD" >>,
      << "COLLECTOR", "reverse" >>,
      << "COLLECTOR", "stop" >>,
      << "COLLECTOR" >>,
      << "COLLECTOR", "forward", "stop" >>,
      << "COLLECTOR", "up" >>,
      << "RESET_HEADING" >>,
      << "STATUS" >>,
      << "PING" >>,
      << "" >> }

Datagrams ==
    { [ utf8 |-> TRUE, parts |-> p ] : p \in Payloads }
        \cup { [ utf8 |-> FALSE, parts |-> << >> ] }

\* the datagrams that decode, each with the call made for it
Decoded == { d \in Datagrams : d.utf8 }
CommandOf == [ d \in Decoded |-> Command(d.parts) ]

(***************************************************************************)
(* Telemetry the ESP32 sends.                                              *)
(***************************************************************************)
TimeLine(t) == [ label |-> "time", toks |-> << t >> ]
AccelLine(x, y, z) == [ label |-> "accel", toks |-> << x, y, z >> ]
GyroLine(x, y, z) == [ label |-> "gyro", toks |-> << x, y, z >> ]
TempLine(t) == [ label |-> "temp", toks |-> << t >> ]
SentinelLine == [ label |-> "---", toks |-> << >> ]

\* a whole frame as sketch_oct31a.ino prints it, with this gyro_z
Frame(gz) ==
    << TimeLine("100"), AccelLine("0.0", "0.0", "9.8"),
       GyroLine("0.0", "0.0", gz), TempLine("25.5"), SentinelLine >>

\* the frames of the specification of the whole server
Frames == { Frame("0.2"), Frame("0.0") }

(***************************************************************************)
(* The timeouts of the blocking calls, in ms: serial.Serial(..., timeout=1) *)
(* for the reads of the ESP32 port, and esp32_thread.join(timeout=2); and   *)
(* time.sleep(0.2) after the collector is stopped in close().              *)
(***************************************************************************)
ReadTimeout == 1000

JoinTimeout == 2000

CloseSleep == 200

(***************************************************************************)
(* The state after construction (server.py main, up to "Server Ready").    *)
(***************************************************************************)
InitState ==
    /\ desired_vx = 0
    /\ desired_vy = 0
    /\ desired_omega = 0
    /\ target_heading = None
    /\ drift_compensation_enabled = TRUE
    /\ ball_collector_mode = "stop"
    /\ last_command_time = StartTime
    /\ latest_imu = InitialImu
    /\ heading = 0
    /\ last_heading_update = 0
    /\ drift_history = << >>
    /\ current_reading = EmptyReading
    /\ server = "running"
    /\ now = StartTime
    /\ nucleo_tx = << >>
    /\ esp32_tx = << >>
    /\ last_op = "init"
    /\ last_intent = None
    /\ last_intent_at = StartTime
    /\ intent_src = "init"
    /\ acc_calls = << >>
    /\ n_commits = 0
    /\ pc_cmd = "idle"
    /\ sv_args = << 0, 0, 0 >>
    /\ pc_ctl = "idle"
    /\ cmd_vx = 0
    /\ cmd_vy = 0
    /\ cmd_omega = 0
    /\ n_calls = 0
    /\ wrote_by = [ f \in { "vx", "vy", "omega" } |-> 0 ]
    /\ read_from = [ f \in { "vx", "vy", "omega", "test" } |-> 0 ]
    /\ gyro_log = << >>
    /\ angle_in = 0
    /\ angle_out = 0
    /\ angle_twice = 0
    /\ view = << >>
    /\ game_was = NewGame("blue")
    /\ reader_alive = TRUE
    /\ control_alive = TRUE
    /\ running = TRUE
    /\ pc_main = "serving"
    /\ pc_rd = "idle"
    /\ imu_lock = "free"
    /\ tick_error = "none"
    /\ cur_heading = 0
    /\ tk_drift = 0
    /\ dr_hist = << >>
    /\ reader_error = "none"

\* the server after its start: both ports open, the reader thread and the
\* control loop thread running, nothing failing
Init ==
    /\ InitState
    /\ esp32_running = TRUE
    /\ program = "server"
    /\ phase = "running"
    /\ fault = NoFault
    /\ nucleo_log = << OpenEv >>
    /\ esp32_log = << "open" >>
    /\ control_started = TRUE
    /\ game = NewGame("blue")
    /\ n_steps = 0

(***************************************************************************)
(* The calls of the controller.                                            *)
(***************************************************************************)
\* Layer2Controller.set_velocity
SetVelocity(vx, vy, omega) ==
    /\ desired_vx' = vx
    /\ desired_vy' = vy
    /\ desired_omega' = omega
    /\ last_command_time' = now
    /\ target_heading' = LatchTarget(omega)
    /\ nucleo_tx' = << >>
    /\ esp32_tx' = << >>
    /\ last_op' = "set_velocity"
    /\ last_intent' = << vx, vy, omega >>
    /\ last_intent_at' = now
    /\ intent_src' = "set_velocity"
    /\ UNCHANGED << drift_compensation_enabled, ball_collector_mode, imuVars,
                    readerVars, server, now >>

\* a stop that counts as a command for the watchdog (a variant, not the
\* program's)
Stop_Refreshes ==
    /\ desired_vx' = 0
    /\ desired_vy' = 0
    /\ desired_omega' = 0
    /\ last_command_time' = now
    /\ nucleo_tx' = << StopMsg >>
    /\ esp32_tx' = StopEsp32Tx
    /\ last_op' = "stop"
    /\ intent_src' = "stop"
    /\ UNCHANGED << target_heading, drift_compensation_enabled,
                    ball_collector_mode, imuVars, readerVars, server, now,
                    last_intent, last_intent_at >>

\* Layer2Controller.stop
Stop ==
    /\ desired_vx' = 0
    /\ desired_vy' = 0
    /\ desired_omega' = 0
    /\ nucleo_tx' = << StopMsg >>
    /\ esp32_tx' = StopEsp32Tx
    /\ last_op' = "stop"
    /\ intent_src' = "stop"
    /\ UNCHANGED << target_heading, drift_compensation_enabled,
                    ball_collector_mode, last_command_time, imuVars,
                    readerVars, server, now, last_intent, last_intent_at >>

\* Layer2Controller.set_ball_collector
SetBallCollector(mode) ==
    /\ ball_collector_mode' = mode
    /\ esp32_tx' = CollectorTx(mode)
    /\ nucleo_tx' = << >>
    /\ last_op' = "set_ball_collector"
    /\ UNCHANGED << desired_vx, desired_vy, desired_omega, target_heading,
                    drift_compensation_enabled, last_command_time, imuVars,
                    readerVars, server, now, last_intent, last_intent_at,
                    intent_src >>

\* reset_heading without drift_history.clear() (a variant, not the
\* program's)
ResetHeading_KeepsDrift ==
    /\ heading' = 0
    /\ target_heading' = Some(0)
    /\ nucleo_tx' = << >>
    /\ esp32_tx' = << >>
    /\ last_op' = "reset_heading"
    /\ UNCHANGED << desired_vx, desired_vy, desired_omega,
                    drift_compensation_enabled, ball_collector_mode,
                    last_command_time, latest_imu, last_heading_update,
                    drift_history, readerVars, server, now, histVars >>

\* Layer2Controller.reset_heading, with RobotInterface.reset_heading
ResetHeading ==
    /\ heading' = 0
    /\ drift_history' = << >>
    /\ target_heading' = Some(0)
    /\ nucleo_tx' = << >>
    /\ esp32_tx' = << >>
    /\ last_op' = "reset_heading"
    /\ UNCHANGED << desired_vx, desired_vy, desired_omega,
                    drift_compensation_enabled, ball_collector_mode,
                    last_command_time, latest_imu, last_heading_update,
                    readerVars, server, now, histVars >>

\* a step of the listener that calls nothing that changes state: STATUS
\* (print_status) and the branches that print a rejection
Quiet(op) ==
    /\ nucleo_tx' = << >>
    /\ esp32_tx' = << >>
    /\ last_op' = op
    /\ UNCHANGED << ctlVars, imuVars, readerVars, server, now, histVars >>

\* Layer2Controller.update
Update ==
    /\ server = "running"
    /\ nucleo_tx' = UpdateTx
    /\ esp32_tx' = << >>
    /\ last_op' = "update"
    /\ UNCHANGED << ctlVars, imuVars, readerVars, server, now, histVars >>

(***************************************************************************)
(* server.py main: one datagram received and handled.                      *)
(***************************************************************************)
RecvVel(d) ==
    /\ server = "running"
    /\ d \in Decoded
    /\ CommandOf[d].call = "set_velocity"
    /\ LET a == CommandOf[d].args IN SetVelocity(a[1], a[2], a[3])

RecvStop(d) ==
    /\ server = "running"
    /\ d \in Decoded
    /\ CommandOf[d].call = "stop"
    /\ Stop

RecvCollector(d) ==
    /\ server = "running"
    /\ d \in Decoded
    /\ CommandOf[d].call = "set_ball_collector"
    /\ SetBallCollector(CommandOf[d].args[1])

RecvResetHeading(d) ==
    /\ server = "running"
    /\ d \in Decoded
    /\ CommandOf[d].call = "reset_heading"
    /\ ResetHeading

RecvStatus(d) ==
    /\ server = "running"
    /\ d \in Decoded
    /\ CommandOf[d].call = "status"
    /\ Quiet("status")

RecvRejected(d) ==
    /\ server = "running"
    /\ d \in Decoded
    /\ CommandOf[d].call = "rejected"
    /\ Quiet("rejected")

\* data.decode() raises UnicodeDecodeError: neither except clause of main
\* names it, so it leaves the loop through the finally clause, which closes
\* the robot interface and the socket
RecvUndecodable(d) ==
    /\ server = "running"
    /\ ~d.utf8
    /\ server' = "stopped"
    /\ esp32_running' = FALSE
    /\ nucleo_tx' = CloseNucleoTx
    /\ esp32_tx' = CloseEsp32Tx
    /\ last_op' = "undecodable"
    /\ UNCHANGED << ctlVars, imuVars, current_reading, n_commits, now,
                    last_intent, last_intent_at, intent_src >>

\* Ctrl+C: the KeyboardInterrupt handler (running = False, controller.stop())
\* and then the finally clause
Interrupt ==
    /\ server = "running"
    /\ server' = "stopped"
    /\ desired_vx' = 0
    /\ desired_vy' = 0
    /\ desired_omega' = 0
    /\ esp32_running' = FALSE
    /\ nucleo_tx' = << StopMsg >> \o CloseNucleoTx
    /\ esp32_tx' = StopEsp32Tx \o CloseEsp32Tx
    /\ last_op' = "interrupt"
    /\ intent_src' = "stop"
    /\ UNCHANGED << target_heading, drift_compensation_enabled,
                    ball_collector_mode, last_command_time, imuVars,
                    current_reading, n_commits, now, last_intent,
                    last_intent_at >>

(***************************************************************************)
(* The reader thread and the clock.                                        *)
(***************************************************************************)
ReaderState ==
    [ cr |-> current_reading, imu |-> latest_imu, heading |-> heading,
      lhu |-> last_heading_update, hist |-> drift_history ]

SetReaderState(rs) ==
    /\ current_reading' = rs.cr
    /\ latest_imu' = rs.imu
    /\ heading' = rs.heading
    /\ last_heading_update' = rs.lhu
    /\ drift_history' = rs.hist

\* the reader reads the lines of one frame
ReadFrame(f) ==
    /\ esp32_running
    /\ n_commits < MaxCommits
    /\ SetReaderState(ReadLinesFn(ReaderState, f, now))
    /\ n_commits' = n_commits + 1
    /\ nucleo_tx' = << >>
    /\ esp32_tx' = << >>
    /\ last_op' = "reader"
    /\ UNCHANGED << ctlVars, esp32_running, server, now, histVars >>

\* time passes
AdvanceTime ==
    /\ server = "running"
    /\ now < MaxNow
    /\ now' = now + TimeStep
    /\ nucleo_tx' = << >>
    /\ esp32_tx' = << >>
    /\ last_op' = "time"
    /\ UNCHANGED << ctlVars, imuVars, readerVars, server, histVars >>

\* the whole server: the listener, the control loop, the reader thread and
\* the clock (the history of the accessory motor is not recorded)
Next ==
    \/ (\E d \in Datagrams : RecvVel(d)) /\ UNCHANGED otherVars
    \/ (\E d \in Datagrams : RecvStop(d)) /\ UNCHANGED otherVars
    \/ (\E d \in Datagrams : RecvCollector(d)) /\ UNCHANGED otherVars
    \/ (\E d \in Datagrams : RecvResetHeading(d)) /\ UNCHANGED otherVars
    \/ (\E d \in Datagrams : RecvStatus(d)) /\ UNCHANGED otherVars
    \/ (\E d \in Datagrams : RecvRejected(d)) /\ UNCHANGED otherVars
    \/ (\E d \in Datagrams : RecvUndecodable(d)) /\ UNCHANGED otherVars
    \/ Interrupt /\ UNCHANGED otherVars
    \/ Update /\ UNCHANGED otherVars
    \/ (\E f \in Frames : ReadFrame(f)) /\ UNCHANGED otherVars
    \/ AdvanceTime /\ UNCHANGED otherVars

Spec == Init /\ [][Next]_vars

(***************************************************************************)
(* The accessory motor: the listener and the control loop, with the        *)
(* history of the operations on the accessory motor recorded.              *)
(***************************************************************************)
AccOps == { "set_ball_collector", "stop", "interrupt", "undecodable" }

\* acc_calls after a step: the last two operations on the accessory motor
RecordAccCall ==
    acc_calls' =
        IF last_op' \in AccOps
        THEN LET c == [ op |-> last_op',
                        mode |-> IF last_op' = "set_ball_collector"
                                 THEN ball_collector_mode'
                                 ELSE "stop",
                        cached |-> ball_collector_mode,
                        n |-> Len(esp32_tx') ]
             IN  IF acc_calls = << >>
                 THEN << c >>
                 ELSE << acc_calls[Len(acc_calls)], c >>
        ELSE acc_calls

RecordAcc == RecordAccCall /\ UNCHANGED extVars

NextAcc ==
    \/ (\E d \in Datagrams : RecvVel(d)) /\ RecordAcc
    \/ (\E d \in Datagrams : RecvStop(d)) /\ RecordAcc
    \/ (\E d \in Datagrams : RecvCollector(d)) /\ RecordAcc
    \/ (\E d \in Datagrams : RecvResetHeading(d)) /\ RecordAcc
    \/ (\E d \in Datagrams : RecvStatus(d)) /\ RecordAcc
    \/ (\E d \in Datagrams : RecvRejected(d)) /\ RecordAcc
    \/ (\E d \in Datagrams : RecvUndecodable(d)) /\ RecordAcc
    \/ Interrupt /\ RecordAcc
    \/ Update /\ RecordAcc

SpecAcc == Init /\ [][NextAcc]_vars

(***************************************************************************)
(* The telemetry reader line by line: the specification of the sensor      *)
(* link alone (the reader thread, heading resets and the clock).           *)
(***************************************************************************)
\* the lines that arrive: well-formed ones, lines whose regular expression
\* does not match, lines with a number float() rejects, an empty line, noise
ReaderLines ==
    { TimeLine("100"), TimeLine("abc"),
      AccelLine("0.0", "0.0", "9.8"), AccelLine("0.0", "0.0", "1.2.3"),
      AccelLine("0.0", "abc", "9.8"),
      GyroLine("0.0", "0.0", "0.2"), GyroLine("0.0", "0.0", "-"),
      TempLine("25.5"), TempLine("1.2.3"),
      SentinelLine,
      [ label |-> "", toks |-> << >> ],
      [ label |-> "noise", toks |-> << >> ] }

\* one iteration of the loop of _esp32_reader_thread that reads a line
ReadLine(line) ==
    /\ esp32_running
    /\ n_commits < MaxFrames
    /\ SetReaderState(ReadLineFn(ReaderState, line, now))
    /\ n_commits' = IF Committed(ReaderState, line)
                    THEN n_commits + 1
                    ELSE n_commits
    /\ nucleo_tx' = << >>
    /\ esp32_tx' = << >>
    /\ last_op' = IF line.label = "---" THEN "sentinel" ELSE "readline"
    /\ UNCHANGED << ctlVars, esp32_running, server, now, histVars >>

NextReader ==
    \/ (\E line \in ReaderLines : ReadLine(line)) /\ UNCHANGED otherVars
    \/ (\E d \in Datagrams : RecvResetHeading(d)) /\ UNCHANGED otherVars
    \/ AdvanceTime /\ UNCHANGED otherVars

SpecReader == Init /\ [][NextReader]_vars

(***************************************************************************)
(* The drift history: whole frames committed one after the other and       *)
(* resets of the heading, with the committed gyro_z values recorded.       *)
(***************************************************************************)
\* the frames that arrive
DriftFrames == { Frame("0.2"), Frame("-0.5") }

\* the gyro_z a frame carries
GyroZOf(f) == FloatOf[f[3].toks[3]]

\* the reader reads the lines of one frame and commits it, max commits at
\* most
CommitFrame(f, max) ==
    /\ esp32_running
    /\ n_commits < max
    /\ SetReaderState(ReadLinesFn(ReaderState, f, now))
    /\ n_commits' = n_commits + 1
    /\ gyro_log' = Append(gyro_log, GyroZOf(f))
    /\ nucleo_tx' = << >>
    /\ esp32_tx' = << >>
    /\ last_op' = "commit"
    /\ UNCHANGED << ctlVars, esp32_running, server, now, histVars, acc_calls,
                    notDrift >>

\* RESET_HEADING arrives
ResetLogged ==
    /\ \E d \in Datagrams : RecvResetHeading(d)
    /\ gyro_log' = << >>
    /\ UNCHANGED << acc_calls, notDrift >>

NextDrift ==
    \/ \E f \in DriftFrames : CommitFrame(f, MaxLog)
    \/ ResetLogged

SpecDrift == Init /\ [][NextDrift]_vars

(***************************************************************************)
(* The heading: frames committed at different times, with rates of turn    *)
(* that integrate to odd multiples of pi, and resets of the heading.       *)
(***************************************************************************)
\* the frames that arrive: an eighth of a turn per second either way, and
\* a slow drift
HeadingFrames == { Frame("0.7854"), Frame("-0.7854"), Frame("0.2") }

NextHeading ==
    \/ \E f \in HeadingFrames : CommitFrame(f, MaxTurns)
    \/ ResetLogged
    \/ AdvanceTime /\ UNCHANGED otherVars

SpecHeading == Init /\ [][NextHeading]_vars

(***************************************************************************)
(* The normalisation of angles on its own.                                 *)
(***************************************************************************)
\* the angles normalised: the multiples of an eighth of a turn up to
\* MaxEighths of them either way, and their neighbours
AngleInputs ==
    { k * (Pi \div 4) + d : k \in -MaxEighths..MaxEighths, d \in -1..1 }

\* _normalize_angle applied to an angle, and again to its result
NormalizeTwice(theta) ==
    /\ angle_in' = theta
    /\ angle_out' \in NormalizeRounded(theta)
    /\ angle_twice' \in NormalizeRounded(angle_out')
    /\ last_op' = "normalize"
    /\ nucleo_tx' = << >>
    /\ esp32_tx' = << >>
    /\ UNCHANGED << ctlVars, imuVars, readerVars, server, now, histVars,
                    acc_calls, notAngle >>

NextAngle == \E theta \in AngleInputs : NormalizeTwice(theta)

SpecAngle == Init /\ [][NextAngle]_vars

(***************************************************************************)
(* The process from its start to its end, for server.py and for main.py,   *)
(* with one thing failing: construction of the robot interface, the        *)
(* program running, and every way out of it.                               *)
(***************************************************************************)
Programs == { "server", "main" }

InitProcess ==
    /\ InitState
    /\ esp32_running = FALSE
    /\ program \in Programs
    /\ phase = "start"
    /\ fault \in Faults
    /\ nucleo_log = << >>
    /\ esp32_log = << >>
    /\ control_started = FALSE
    /\ game = NewGame("blue")
    /\ n_steps = 0

\* serial.Serial(port, ...) never raises (a variant, not the program's)
OpenFails_Never(port) == FALSE

\* serial.Serial(port, ...) raises
OpenFails(port) == fault = << port, "open" >>

\* the lines that reach a port out of those the program writes: a write
\* that raises is caught where it is made and nothing is written
Through(port, tx) == IF fault = << port, "write" >> THEN << >> ELSE tx

\* the try block of close() for a port, after its writes: close() of the
\* port is reached, and returns, unless a write or the close raised
Closed(port, ev) ==
    IF fault \in { << port, "write" >>, << port, "close" >> }
    THEN << >>
    ELSE << ev >>

\* what a step leaves alone of the state of the server
procFrame == << acc_calls, notProc >>

\* RobotInterface.__init__ up to _connect_nucleo; the exception of a failed
\* open leaves __init__, and main prints the troubleshooting and exits
ConnectNucleo ==
    /\ phase = "start"
    /\ IF OpenFails("nucleo")
       THEN /\ phase' = "exited"
            /\ UNCHANGED nucleo_log
       ELSE /\ phase' = "nucleo_open"
            /\ nucleo_log' = << OpenEv >>
    /\ last_op' = "connect_nucleo"
    /\ UNCHANGED << ctlVars, imuVars, readerVars, server, now, nucleo_tx,
                    esp32_tx, histVars, program, fault, esp32_log,
                    control_started, game, n_steps, procFrame >>

\* RobotInterface._connect_esp32: the reader thread is started once the
\* port is open
ConnectEsp32 ==
    /\ phase = "nucleo_open"
    /\ IF OpenFails("esp32")
       THEN /\ phase' = "exited"
            /\ UNCHANGED << esp32_log, esp32_running >>
       ELSE /\ phase' = "constructed"
            /\ esp32_log' = << "open" >>
            /\ esp32_running' = TRUE
    /\ last_op' = "connect_esp32"
    /\ UNCHANGED << ctlVars, imuVars, current_reading, n_commits, server,
                    now, nucleo_tx, esp32_tx, histVars, program, fault,
                    nucleo_log, control_started, game, n_steps, procFrame >>

\* server.py main, lines 40-70: the controller, the socket and the control
\* loop thread
StartServer ==
    /\ program = "server"
    /\ phase = "constructed"
    /\ phase' = "running"
    /\ control_started' = TRUE
    /\ last_op' = "start_server"
    /\ UNCHANGED << ctlVars, imuVars, readerVars, server, now, nucleo_tx,
                    esp32_tx, histVars, program, fault, nucleo_log,
                    esp32_log, game, n_steps, procFrame >>

\* the ports after a step that makes the program write nucleo_tx' and
\* esp32_tx' and then, when closing is TRUE, close the ports
Logged(closing) ==
    /\ nucleo_log' = nucleo_log \o Through("nucleo", nucleo_tx')
                        \o (IF closing THEN Closed("nucleo", CloseEv)
                                       ELSE << >>)
    /\ esp32_log' = esp32_log \o Through("esp32", esp32_tx')
                       \o (IF closing THEN Closed("esp32", "close")
                                      ELSE << >>)

\* a step of the running server: a datagram handled, or a tick
ServerStep(A) ==
    /\ program = "server"
    /\ phase = "running"
    /\ n_steps < MaxSteps
    /\ A
    /\ Logged(FALSE)
    /\ n_steps' = n_steps + 1
    /\ UNCHANGED << program, phase, fault, control_started, game, procFrame >>

\* the server leaves its loop: Ctrl+C, or an exception no handler of the
\* loop catches; the finally clause closes the robot interface
ServerShutdown(A) ==
    /\ program = "server"
    /\ phase = "running"
    /\ A
    /\ Logged(TRUE)
    /\ phase' = "closed"
    /\ UNCHANGED << program, fault, control_started, game, n_steps,
                    procFrame >>

\* what a step of main.py leaves alone
mainFrame ==
    << ctlVars, imuVars, current_reading, n_commits, server, histVars,
       program, fault, control_started, procFrame >>

\* main.py, lines 27-48: the camera, GameLogic and start_game; when the
\* camera cannot be opened, robot.close() and sys.exit(1)
StartMain ==
    /\ program = "main"
    /\ phase = "constructed"
    /\ IF fault = << "camera", "open" >>
       THEN /\ phase' = "closed"
            /\ nucleo_tx' = CloseNucleoTx
            /\ esp32_tx' = CloseEsp32Tx
            /\ Logged(TRUE)
            /\ esp32_running' = FALSE
            /\ UNCHANGED game
       ELSE /\ phase' = "running"
            /\ game' = StartGame(game, now)
            /\ nucleo_tx' = << >>
            /\ esp32_tx' = << >>
            /\ UNCHANGED << nucleo_log, esp32_log, esp32_running >>
    /\ last_op' = "start_main"
    /\ UNCHANGED << now, n_steps, mainFrame >>

\* the frames the camera delivers, as the detections found in them
GameFrames ==
    { << >>,
      << [ label |-> "Ball", center |-> << 200, 240 >>, area |-> 500 ] >>,
      << [ label |-> "Ball", center |-> << 200, 240 >>, area |-> 500 ],
         [ label |-> "Ball", center |-> << 400, 450 >>, area |-> 2000 ] >>,
      << [ label |-> "Ball", center |-> << 320, 460 >>, area |-> 40000 ] >>,
      << [ label |-> "Blue Goal", center |-> << 100, 200 >>,
           area |-> 5000 ] >>,
      << [ label |-> "Blue Goal", center |-> << 320, 240 >>,
           area |-> 150000 ] >>,
      << [ label |-> "Yellow Goal", center |-> << 320, 240 >>,
           area |-> 150000 ] >> }

\* one turn of the loop of main.py: a frame is read and game.update(frame)
\* runs
GameUpdate(frame) ==
    /\ program = "main"
    /\ phase = "running"
    /\ n_steps < MaxSteps
    /\ LET r == GameUpdateFn(game, frame, now)
       IN  /\ game' = r.g
           /\ nucleo_tx' = r.nucleo
           /\ esp32_tx' = r.esp32
    /\ Logged(FALSE)
    /\ n_steps' = n_steps + 1
    /\ last_op' = "game_update"
    /\ UNCHANGED << phase, now, esp32_running, mainFrame >>

\* time passes between two turns of the loop of main.py
GameSteps == { 2 * TimeStep, GameDuration }
GameAdvance(dt) ==
    /\ program = "main"
    /\ phase = "running"
    /\ n_steps < MaxSteps
    /\ now' = now + dt
    /\ n_steps' = n_steps + 1
    /\ nucleo_tx' = << >>
    /\ esp32_tx' = << >>
    /\ last_op' = "time"
    /\ UNCHANGED << phase, game, nucleo_log, esp32_log, esp32_running,
                    mainFrame >>

\* main.py leaves its loop: the 'q' key or a frame that cannot be grabbed
\* (break), Ctrl+C, or an exception raised in the loop; the finally clause
\* runs game.cleanup() and robot.close()
MainExits == { "break", "interrupt", "exception" }
MainShutdown(how) ==
    /\ program = "main"
    /\ phase = "running"
    /\ LET r == Cleanup(game)
       IN  /\ game' = r.g
           /\ nucleo_tx' = r.nucleo \o CloseNucleoTx
           /\ esp32_tx' = r.esp32 \o CloseEsp32Tx
    /\ Logged(TRUE)
    /\ esp32_running' = FALSE
    /\ phase' = "closed"
    /\ last_op' = how
    /\ UNCHANGED << now, n_steps, mainFrame >>

NextProcess ==
    \/ ConnectNucleo
    \/ ConnectEsp32
    \/ StartServer
    \/ StartMain
    \/ \E d \in Datagrams : ServerStep(RecvVel(d))
    \/ \E d \in Datagrams : ServerStep(RecvStop(d))
    \/ \E d \in Datagrams : ServerStep(RecvCollector(d))
    \/ ServerStep(Update)
    \/ ServerShutdown(Interrupt)
    \/ \E d \in Datagrams : ServerShutdown(RecvUndecodable(d))
    \/ \E frame \in GameFrames : GameUpdate(frame)
    \/ \E dt \in GameSteps : GameAdvance(dt)
    \/ \E how \in MainExits : MainShutdown(how)

SpecProcess == InitProcess /\ [][NextProcess]_vars

(***************************************************************************)
(* GameLogic on its own, as main.py drives it: start_game, then update     *)
(* with whatever the camera shows, while the clock advances.               *)
(***************************************************************************)
\* the clock advances between two updates by the dwell time of COLLECTING, so
\* that an elapsed time of exactly that dwell time is reached, or by a whole
\* game duration
GameTick == CollectTime

\* main.py after construction, before game.start_game(), for the default
\* team
InitGame ==
    /\ InitState
    /\ esp32_running = TRUE
    /\ program = "main"
    /\ phase = "running"
    /\ fault = NoFault
    /\ nucleo_log = << OpenEv >>
    /\ esp32_log = << "open" >>
    /\ control_started = FALSE
    /\ game = NewGame("blue")
    /\ n_steps = 0

\* the frames the camera delivers to the game, as the detections found in
\* them: nothing; two balls low and high in the frame, the larger one last
\* and the larger one first; a ball close by; a ball exactly at the
\* thresholds; goals of the target colour, small, close and centred, close
\* and off-centre, exactly at the thresholds, two at once; the own goal; a
\* ball together with a goal
GameViews ==
    { << >>,
      << [ label |-> "Ball", center |-> << 200, 240 >>, area |-> 500 ],
         [ label |-> "Ball", center |-> << 400, 450 >>, area |-> 2000 ] >>,
      << [ label |-> "Ball", center |-> << 400, 450 >>, area |-> 2000 ],
         [ label |-> "Ball", center |-> << 200, 240 >>, area |-> 500 ] >>,
      << [ label |-> "Ball", center |-> << 320, 460 >>, area |-> 40000 ] >>,
      << [ label |-> "Ball", center |-> << 320, 408 >>, area |-> 32000 ] >>,
      << [ label |-> "Blue Goal", center |-> << 100, 200 >>,
           area |-> 5000 ] >>,
      << [ label |-> "Blue Goal", center |-> << 320, 240 >>,
           area |-> 150000 ] >>,
      << [ label |-> "Blue Goal", center |-> << 600, 240 >>,
           area |-> 150000 ] >>,
      << [ label |-> "Blue Goal", center |-> << 220, 240 >>,
           area |-> 100000 ] >>,
      << [ label |-> "Blue Goal", center |-> << 600, 240 >>,
           area |-> 5000 ],
         [ label |-> "Blue Goal", center |-> << 300, 240 >>,
           area |-> 120000 ] >>,
      << [ label |-> "Yellow Goal", center |-> << 320, 240 >>,
           area |-> 150000 ] >>,
      << [ label |-> "Ball", center |-> << 320, 460 >>, area |-> 40000 ],
         [ label |-> "Blue Goal", center |-> << 320, 240 >>,
           area |-> 150000 ] >> }

\* what the steps of the game leave alone
playFrame ==
    << ctlVars, imuVars, readerVars, server, histVars, acc_calls,
       threadVars, gyro_log, angleVars, program, phase, fault, nucleo_log,
       esp32_log, control_started, lifeVars >>

\* game.start_game(), called while the game is idle
PlayStart ==
    /\ game.state = "IDLE"
    /\ game' = StartGame(game, now)
    /\ game_was' = game
    /\ view' = << >>
    /\ nucleo_tx' = << >>
    /\ esp32_tx' = << >>
    /\ last_op' = "start_game"
    /\ UNCHANGED << now, n_steps, playFrame >>

\* game.update(frame)
PlayUpdate(frame) ==
    /\ LET r == GameUpdateFn(game, frame, now)
       IN  /\ game' = r.g
           /\ nucleo_tx' = r.nucleo
           /\ esp32_tx' = r.esp32
    /\ game_was' = game
    /\ view' = frame
    /\ last_op' = "game_update"
    /\ UNCHANGED << now, n_steps, playFrame >>

\* time passes between two updates
PlayTick ==
    /\ n_steps < MaxGameTicks
    /\ n_steps' = n_steps + 1
    /\ now' = now + GameTick
    /\ nucleo_tx' = << >>
    /\ esp32_tx' = << >>
    /\ last_op' = "time"
    /\ view' = << >>
    /\ game_was' = game
    /\ UNCHANGED << game, playFrame >>

\* no update is made for a whole game duration while the game runs
PlayWait ==
    /\ game.state # "IDLE"
    /\ (now - StartTime) \div GameDuration < MaxWaits
    /\ now' = now + GameDuration
    /\ nucleo_tx' = << >>
    /\ esp32_tx' = << >>
    /\ last_op' = "wait"
    /\ view' = << >>
    /\ game_was' = game
    /\ UNCHANGED << game, n_steps, playFrame >>

NextGame ==
    \/ PlayStart
    \/ \E frame \in GameViews : PlayUpdate(frame)
    \/ PlayTick
    \/ PlayWait

SpecGame == InitGame /\ [][NextGame]_vars

\* the same when the clock keeps advancing, as long as the model lets it,
\* and the loop of main.py keeps calling update
SpecGameLive ==
    /\ SpecGame
    /\ WF_vars(PlayTick)
    /\ WF_vars(\E frame \in GameViews : PlayUpdate(frame))

(***************************************************************************)
(* The command thread and the control thread of server.py statement by     *)
(* statement.  set_velocity and update take no lock, so the interpreter    *)
(* may switch threads between any two of their statements.                 *)
(***************************************************************************)
\* the velocity commands that arrive
IntentArgs == { << 10000, 0, 0 >>, << 0, -5000, 5000 >>, << 5000, 5000, 0 >> }

\* what the statements of the threads leave alone
threadFrame ==
    << drift_compensation_enabled, ball_collector_mode, imuVars, readerVars,
       server, now, last_intent_at, intent_src, acc_calls, notThread >>

\* set_velocity, line 63: the call begins and stores vx
SvStoreVx(args) ==
    /\ server = "running"
    /\ pc_cmd = "idle"
    /\ n_calls < MaxCalls
    /\ n_calls' = n_calls + 1
    /\ sv_args' = args
    /\ desired_vx' = args[1]
    /\ wrote_by' = [ wrote_by EXCEPT !["vx"] = n_calls + 1 ]
    /\ pc_cmd' = "l64"
    /\ last_intent' = args
    /\ last_op' = "sv63"
    /\ nucleo_tx' = << >>
    /\ esp32_tx' = << >>
    /\ UNCHANGED << desired_vy, desired_omega, target_heading,
                    last_command_time, pc_ctl, cmd_vx, cmd_vy, cmd_omega,
                    read_from, threadFrame >>

\* set_velocity, line 64
SvStoreVy ==
    /\ pc_cmd = "l64"
    /\ desired_vy' = sv_args[2]
    /\ wrote_by' = [ wrote_by EXCEPT !["vy"] = n_calls ]
    /\ pc_cmd' = "l65"
    /\ last_op' = "sv64"
    /\ nucleo_tx' = << >>
    /\ esp32_tx' = << >>
    /\ UNCHANGED << desired_vx, desired_omega, target_heading,
                    last_command_time, sv_args, n_calls, last_intent, pc_ctl,
                    cmd_vx, cmd_vy, cmd_omega, read_from, threadFrame >>

\* set_velocity, line 65
SvStoreOmega ==
    /\ pc_cmd = "l65"
    /\ desired_omega' = sv_args[3]
    /\ wrote_by' = [ wrote_by EXCEPT !["omega"] = n_calls ]
    /\ pc_cmd' = "l66"
    /\ last_op' = "sv65"
    /\ nucleo_tx' = << >>
    /\ esp32_tx' = << >>
    /\ UNCHANGED << desired_vx, desired_vy, target_heading,
                    last_command_time, sv_args, n_calls, last_intent, pc_ctl,
                    cmd_vx, cmd_vy, cmd_omega, read_from, threadFrame >>

\* set_velocity, lines 66-74: the watchdog timestamp and the target heading
SvStampAndLatch ==
    /\ pc_cmd = "l66"
    /\ last_command_time' = now
    /\ target_heading' = LatchTarget(sv_args[3])
    /\ pc_cmd' = "idle"
    /\ last_op' = "sv66"
    /\ nucleo_tx' = << >>
    /\ esp32_tx' = << >>
    /\ UNCHANGED << desired_vx, desired_vy, desired_omega, sv_args, n_calls,
                    wrote_by, last_intent, pc_ctl, cmd_vx, cmd_vy, cmd_omega,
                    read_from, threadFrame >>

\* update, lines 108-119: the watchdog test, then the readings of the
\* sensors and cmd_vx = self.desired_vx
UpReadVx ==
    /\ server = "running"
    /\ pc_ctl = "idle"
    /\ IF WatchdogExpired
       THEN /\ nucleo_tx' = << StopMsg >>
            /\ last_op' = "up_stop"
            /\ UNCHANGED << pc_ctl, cmd_vx, read_from >>
       ELSE /\ cmd_vx' = desired_vx
            /\ read_from' = [ read_from EXCEPT !["vx"] = wrote_by["vx"] ]
            /\ pc_ctl' = "l120"
            /\ nucleo_tx' = << >>
            /\ last_op' = "up119"
    /\ esp32_tx' = << >>
    /\ UNCHANGED << desired_vx, desired_vy, desired_omega, target_heading,
                    last_command_time, pc_cmd, sv_args, n_calls, wrote_by,
                    last_intent, cmd_vy, cmd_omega, threadFrame >>

\* update, line 120: cmd_vy = self.desired_vy
UpReadVy ==
    /\ pc_ctl = "l120"
    /\ cmd_vy' = desired_vy
    /\ read_from' = [ read_from EXCEPT !["vy"] = wrote_by["vy"] ]
    /\ pc_ctl' = "l121"
    /\ last_op' = "up120"
    /\ nucleo_tx' = << >>
    /\ esp32_tx' = << >>
    /\ UNCHANGED << desired_vx, desired_vy, desired_omega, target_heading,
                    last_command_time, pc_cmd, sv_args, n_calls, wrote_by,
                    last_intent, cmd_vx, cmd_omega, threadFrame >>

\* update, line 121: cmd_omega = self.desired_omega
UpReadOmega ==
    /\ pc_ctl = "l121"
    /\ cmd_omega' = desired_omega
    /\ read_from' = [ read_from EXCEPT !["omega"] = wrote_by["omega"] ]
    /\ pc_ctl' = "l124"
    /\ last_op' = "up121"
    /\ nucleo_tx' = << >>
    /\ esp32_tx' = << >>
    /\ UNCHANGED << desired_vx, desired_vy, desired_omega, target_heading,
                    last_command_time, pc_cmd, sv_args, n_calls, wrote_by,
                    last_intent, cmd_vx, cmd_vy, threadFrame >>

\* update, lines 124-140: the deadband test reads self.desired_omega again,
\* and the correction is added to cmd_omega
UpCorrect ==
    /\ pc_ctl = "l124"
    /\ cmd_omega' = cmd_omega + OmegaCorrection
    /\ read_from' = [ read_from EXCEPT !["test"] = wrote_by["omega"] ]
    /\ pc_ctl' = "l143"
    /\ last_op' = "up124"
    /\ nucleo_tx' = << >>
    /\ esp32_tx' = << >>
    /\ UNCHANGED << desired_vx, desired_vy, desired_omega, target_heading,
                    last_command_time, pc_cmd, sv_args, n_calls, wrote_by,
                    last_intent, cmd_vx, cmd_vy, threadFrame >>

\* update, line 143: send_velocity_command(cmd_vx, cmd_vy, cmd_omega)
UpSend ==
    /\ pc_ctl = "l143"
    /\ nucleo_tx' = << VelMsg(cmd_vx, cmd_vy, cmd_omega) >>
    /\ pc_ctl' = "idle"
    /\ last_op' = "up143"
    /\ esp32_tx' = << >>
    /\ UNCHANGED << desired_vx, desired_vy, desired_omega, target_heading,
                    last_command_time, pc_cmd, sv_args, n_calls, wrote_by,
                    last_intent, cmd_vx, cmd_vy, cmd_omega, read_from,
                    threadFrame >>

NextThreads ==
    \/ \E args \in IntentArgs : SvStoreVx(args)
    \/ SvStoreVy
    \/ SvStoreOmega
    \/ SvStampAndLatch
    \/ UpReadVx
    \/ UpReadVy
    \/ UpReadOmega
    \/ UpCorrect
    \/ UpSend

SpecThreads == Init /\ [][NextThreads]_vars

(***************************************************************************)
(* One tick against the other threads, call by call.  update reads the     *)
(* heading under imu_lock and the drift rate without it; the command       *)
(* thread runs set_velocity and reset_heading, the reader thread commits   *)
(* frames; the interpreter may switch threads between any two calls.       *)
(***************************************************************************)
\* sum() of a sequence
RECURSIVE SumSeq(_)
SumSeq(q) == IF q = << >> THEN 0 ELSE Head(q) + SumSeq(Tail(q))

\* control_loop calls controller.update() outside any try statement: no
\* exception that leaves update is caught, and the thread ends with it
ControlLoopCatches(exc) == FALSE

\* the server after its start, where the writes to the Nucleo may fail
InitTick ==
    /\ InitState
    /\ esp32_running = TRUE
    /\ program = "server"
    /\ phase = "running"
    /\ fault \in { NoFault, << "nucleo", "write" >> }
    /\ nucleo_log = << OpenEv >>
    /\ esp32_log = << "open" >>
    /\ control_started = TRUE
    /\ game = NewGame("blue")
    /\ n_steps = 0

\* the velocity commands that arrive: one that rotates and one that does
\* not
TickIntents == { << 10000, 0, 0 >>, << 0, -5000, 5000 >> }

\* the frames that arrive
TickFrames == { Frame("0.2") }

\* what the steps of the three threads leave alone
tickRest ==
    << drift_compensation_enabled, ball_collector_mode, esp32_running,
       server, last_intent_at, intent_src, acc_calls, gyro_log, angleVars,
       procVars, gameHist, reader_alive, running, pc_main, reader_error >>

\* what belongs to the command thread, to the control thread and to the
\* reader thread
cmdSide ==
    << pc_cmd, sv_args, n_calls, wrote_by, last_intent, desired_vx,
       desired_vy, desired_omega, last_command_time >>

ctlSide ==
    << pc_ctl, cmd_vx, cmd_vy, cmd_omega, read_from, control_alive,
       tick_error, cur_heading, tk_drift, dr_hist >>

rdSide ==
    << pc_rd, latest_imu, last_heading_update, current_reading, n_commits >>

\* a step that writes to no port
NoWrite == nucleo_tx' = << >> /\ esp32_tx' = << >>

\* set_velocity, lines 63-66: the desired velocity and the time of the
\* watchdog (the three stores are followed one by one in the specification
\* of the two threads)
TkSvStore(args) ==
    /\ server = "running"
    /\ pc_cmd = "idle"
    /\ sv_args' = args
    /\ desired_vx' = args[1]
    /\ desired_vy' = args[2]
    /\ desired_omega' = args[3]
    /\ last_command_time' = now
    /\ pc_cmd' = "l69"
    /\ last_op' = "sv66"
    /\ NoWrite
    /\ UNCHANGED << n_calls, wrote_by, last_intent, target_heading, heading,
                    drift_history, imu_lock, now, ctlSide, rdSide,
                    tickRest >>

\* set_velocity, lines 69-74: the target heading is cleared, or latched
\* from get_heading, which waits for imu_lock
TkSvLatch ==
    /\ pc_cmd = "l69"
    /\ \/ imu_lock = "free"
       \/ Abs(sv_args[3]) > DeadbandSet
       \/ target_heading # None
    /\ target_heading' = LatchTarget(sv_args[3])
    /\ pc_cmd' = "idle"
    /\ last_op' = "sv74"
    /\ NoWrite
    /\ UNCHANGED << sv_args, n_calls, wrote_by, last_intent, desired_vx,
                    desired_vy, desired_omega, last_command_time, heading,
                    drift_history, imu_lock, now, ctlSide, rdSide,
                    tickRest >>

\* reset_heading: RobotInterface.reset_heading takes imu_lock and sets the
\* heading to 0
RsBegin ==
    /\ server = "running"
    /\ pc_cmd = "idle"
    /\ imu_lock = "free"
    /\ imu_lock' = "cmd"
    /\ heading' = 0
    /\ pc_cmd' = "l205"
    /\ last_op' = "rs204"
    /\ NoWrite
    /\ UNCHANGED << sv_args, n_calls, wrote_by, last_intent, desired_vx,
                    desired_vy, desired_omega, last_command_time,
                    target_heading, drift_history, now, ctlSide, rdSide,
                    tickRest >>

\* ... clears the drift history and releases the lock
RsClear ==
    /\ pc_cmd = "l205"
    /\ drift_history' = << >>
    /\ imu_lock' = "free"
    /\ pc_cmd' = "l99"
    /\ last_op' = "rs205"
    /\ NoWrite
    /\ UNCHANGED << sv_args, n_calls, wrote_by, last_intent, desired_vx,
                    desired_vy, desired_omega, last_command_time,
                    target_heading, heading, now, ctlSide, rdSide,
                    tickRest >>

\* reset_heading of the controller, line 99: the target heading
RsTarget ==
    /\ pc_cmd = "l99"
    /\ target_heading' = Some(0)
    /\ pc_cmd' = "idle"
    /\ last_op' = "rs99"
    /\ NoWrite
    /\ UNCHANGED << sv_args, n_calls, wrote_by, last_intent, desired_vx,
                    desired_vy, desired_omega, last_command_time, heading,
                    drift_history, imu_lock, now, ctlSide, rdSide,
                    tickRest >>

\* the reader has read the lines of a frame up to the sentinel: it takes
\* imu_lock, replaces latest_imu and integrates the heading
\* (_update_heading, lines 153-160)
RdBegin(f) ==
    /\ reader_alive
    /\ esp32_running
    /\ pc_rd = "idle"
    /\ n_commits < MaxTickCommits
    /\ imu_lock = "free"
    /\ imu_lock' = "reader"
    /\ LET rs == ReadLinesFn(ReaderState, f, now)
       IN  /\ latest_imu' = rs.imu
           /\ heading' = rs.heading
           /\ current_reading' = rs.imu
    /\ pc_rd' = "l163"
    /\ last_op' = "rd160"
    /\ NoWrite
    /\ UNCHANGED << last_heading_update, n_commits, drift_history,
                    target_heading, now, cmdSide, ctlSide, tickRest >>

\* ... appends gyro_z to the drift history (lines 163-165), releases the
\* lock and empties current_reading
RdAppend ==
    /\ pc_rd = "l163"
    /\ drift_history' = DequeAppend(drift_history, latest_imu["gyro_z"])
    /\ last_heading_update' = now
    /\ current_reading' = EmptyReading
    /\ imu_lock' = "free"
    /\ n_commits' = n_commits + 1
    /\ pc_rd' = "idle"
    /\ last_op' = "rd165"
    /\ NoWrite
    /\ UNCHANGED << latest_imu, heading, target_heading, now, cmdSide,
                    ctlSide, tickRest >>

\* an exception leaves update: control_loop does not catch it
TickRaises(exc) ==
    /\ tick_error' = exc
    /\ control_alive' = ControlLoopCatches(exc)
    /\ pc_ctl' = "idle"

\* the locals of update and get_drift_rate are gone when update returns or
\* raises
NoLocals ==
    /\ cmd_vx' = 0
    /\ cmd_vy' = 0
    /\ cmd_omega' = 0
    /\ cur_heading' = 0
    /\ tk_drift' = 0
    /\ dr_hist' = << >>

\* update, lines 108-113: the watchdog test; stop_movement catches a write
\* that fails; get_imu_data takes and releases imu_lock
TkStart ==
    /\ server = "running"
    /\ control_alive
    /\ pc_ctl = "idle"
    /\ IF WatchdogExpired
       THEN /\ nucleo_tx' = Through("nucleo", << StopMsg >>)
            /\ last_op' = "tk_stop"
            /\ tick_error' = "none"
            /\ UNCHANGED pc_ctl
       ELSE /\ imu_lock = "free"
            /\ pc_ctl' = "l114"
            /\ nucleo_tx' = << >>
            /\ last_op' = "tk113"
            /\ UNCHANGED tick_error
    /\ esp32_tx' = << >>
    /\ UNCHANGED << cmd_vx, cmd_vy, cmd_omega, read_from, control_alive,
                    cur_heading, tk_drift, dr_hist, target_heading, heading,
                    drift_history, imu_lock, now, cmdSide, rdSide,
                    tickRest >>

\* update, line 114: get_heading reads the heading under imu_lock
TkHeading ==
    /\ pc_ctl = "l114"
    /\ imu_lock = "free"
    /\ cur_heading' = heading
    /\ pc_ctl' = "l197"
    /\ last_op' = "tk114"
    /\ NoWrite
    /\ UNCHANGED << cmd_vx, cmd_vy, cmd_omega, read_from, control_alive,
                    tick_error, tk_drift, dr_hist, target_heading, heading,
                    drift_history, imu_lock, now, cmdSide, rdSide,
                    tickRest >>

\* get_drift_rate, lines 197-198: the test for an empty history
TkDriftTest ==
    /\ pc_ctl = "l197"
    /\ IF Len(drift_history) = 0
       THEN /\ tk_drift' = 0
            /\ pc_ctl' = "l119"
       ELSE /\ pc_ctl' = "l199"
            /\ UNCHANGED tk_drift
    /\ last_op' = "tk197"
    /\ NoWrite
    /\ UNCHANGED << cmd_vx, cmd_vy, cmd_omega, read_from, control_alive,
                    tick_error, cur_heading, dr_hist, target_heading,
                    heading, drift_history, imu_lock, now, cmdSide, rdSide,
                    tickRest >>

\* get_drift_rate, line 199: sum(self.drift_history)
TkDriftSum ==
    /\ pc_ctl = "l199"
    /\ dr_hist' = drift_history
    /\ pc_ctl' = "l199len"
    /\ last_op' = "tk199sum"
    /\ NoWrite
    /\ UNCHANGED << cmd_vx, cmd_vy, cmd_omega, read_from, control_alive,
                    tick_error, cur_heading, tk_drift, target_heading,
                    heading, drift_history, imu_lock, now, cmdSide, rdSide,
                    tickRest >>

\* get_drift_rate, line 199: len(self.drift_history) and the division
TkDriftLen ==
    /\ pc_ctl = "l199len"
    /\ IF Len(drift_history) = 0
       THEN /\ TickRaises("ZeroDivisionError")
            /\ NoLocals
       ELSE /\ tk_drift' = SumSeq(dr_hist) \div Len(drift_history)
            /\ pc_ctl' = "l119"
            /\ UNCHANGED << tick_error, control_alive, cmd_vx, cmd_vy,
                            cmd_omega, cur_heading, dr_hist >>
    /\ last_op' = "tk199len"
    /\ NoWrite
    /\ UNCHANGED << read_from, target_heading, heading, drift_history,
                    imu_lock, now, cmdSide, rdSide, tickRest >>

\* update, lines 119-121: the desired velocity is copied
TkReadCmd ==
    /\ pc_ctl = "l119"
    /\ cmd_vx' = desired_vx
    /\ cmd_vy' = desired_vy
    /\ cmd_omega' = desired_omega
    /\ pc_ctl' = "l124"
    /\ last_op' = "tk121"
    /\ NoWrite
    /\ UNCHANGED << read_from, control_alive, tick_error, cur_heading,
                    tk_drift, dr_hist, target_heading, heading,
                    drift_history, imu_lock, now, cmdSide, rdSide,
                    tickRest >>

\* update, lines 124-128: the three tests before the correction
TkTest ==
    /\ pc_ctl = "l124"
    /\ pc_ctl' = IF /\ drift_compensation_enabled
                    /\ Abs(desired_omega) < DeadbandTick
                    /\ target_heading # None
                 THEN "l130"
                 ELSE "l143"
    /\ last_op' = "tk128"
    /\ NoWrite
    /\ UNCHANGED << cmd_vx, cmd_vy, cmd_omega, read_from, control_alive,
                    tick_error,
                    cur_heading, tk_drift, dr_hist, target_heading, heading,
                    drift_history, imu_lock, now, cmdSide, rdSide,
                    tickRest >>

\* update, lines 130-140: self.target_heading is read again for the heading
\* error; None - float raises TypeError
TkUse ==
    /\ pc_ctl = "l130"
    /\ IF target_heading = None
       THEN /\ TickRaises("TypeError")
            /\ NoLocals
       ELSE /\ cmd_omega' = cmd_omega
                   + Clamp(DriftGain
                             * NormalizeAngle(target_heading[1] - cur_heading)
                           - tk_drift)
            /\ pc_ctl' = "l143"
            /\ UNCHANGED << tick_error, control_alive, cmd_vx, cmd_vy,
                            cur_heading, tk_drift, dr_hist >>
    /\ last_op' = "tk130"
    /\ NoWrite
    /\ UNCHANGED << read_from, target_heading, heading, drift_history,
                    imu_lock, now, cmdSide, rdSide, tickRest >>

\* update, line 143: send_velocity_command catches a write that fails
TkSend ==
    /\ pc_ctl = "l143"
    /\ nucleo_tx' = Through("nucleo", << VelMsg(cmd_vx, cmd_vy, cmd_omega) >>)
    /\ esp32_tx' = << >>
    /\ tick_error' = "none"
    /\ NoLocals
    /\ pc_ctl' = "idle"
    /\ last_op' = "tk143"
    /\ UNCHANGED << read_from, control_alive, target_heading, heading,
                    drift_history, imu_lock, now, cmdSide, rdSide,
                    tickRest >>

\* time passes between the calls of the threads: a call takes no time at
\* the resolution of the clock
TickClock ==
    /\ pc_cmd = "idle"
    /\ pc_ctl = "idle"
    /\ pc_rd = "idle"
    /\ AdvanceTime
    /\ UNCHANGED otherVars

NextTick ==
    \/ \E args \in TickIntents : TkSvStore(args)
    \/ TkSvLatch
    \/ RsBegin
    \/ RsClear
    \/ RsTarget
    \/ \E f \in TickFrames : RdBegin(f)
    \/ RdAppend
    \/ TkStart
    \/ TkHeading
    \/ TkDriftTest
    \/ TkDriftSum
    \/ TkDriftLen
    \/ TkReadCmd
    \/ TkTest
    \/ TkUse
    \/ TkSend
    \/ TickClock

SpecTick == InitTick /\ [][NextTick]_vars

(***************************************************************************)
(* The life of the reader thread: one iteration of its loop after the      *)
(* other, with lines that do not parse and reads that fail, until the      *)
(* shutdown clears its flag.                                               *)
(***************************************************************************)
\* a handler that catches only the ValueError of float() (a variant, not the
\* program's)
ReaderCatches_ValueErrorOnly(exc) == exc = "ValueError"

\* the handler of the loop, except Exception: it catches the ValueError of
\* float(), the KeyError of _update_heading, and the SerialException or
\* OSError of a read that fails
ReaderCatches(exc) ==
    exc \in { "ValueError", "KeyError", "SerialException", "OSError" }

\* the exception reading a line raises inside the try block, "none" when
\* none
LineRaises(rs, line) ==
    IF line.label = "---"
    THEN IF FrameComplete(rs.cr) /\ "gyro_z" \notin DOMAIN rs.cr
         THEN "KeyError"
         ELSE "none"
    ELSE IF ParseLine(rs.cr, line).raised THEN "ValueError" ELSE "none"

\* the loop after an exception raised inside its try block: the handler
\* prints, sleeps and the loop goes on, or the exception ends the thread
AfterRaise(exc) ==
    /\ reader_alive' = ReaderCatches(exc)
    /\ reader_error' = IF ReaderCatches(exc) THEN exc ELSE reader_error

\* what the steps of the reader leave alone
linkRest ==
    << ctlVars, server, histVars, nucleo_tx, esp32_tx, acc_calls, notLife,
       control_alive, running, pc_main, pc_rd, imu_lock, tick_error,
       cur_heading, tk_drift, dr_hist >>

\* the frames that arrive whole
LinkFrames == { Frame("0.2"), Frame("-0.5") }

\* one iteration of the loop that reads a line
LinkRead(line) ==
    /\ reader_alive
    /\ esp32_running
    /\ n_commits < MaxFrames
    /\ SetReaderState(ReadLineFn(ReaderState, line, now))
    /\ n_commits' = IF Committed(ReaderState, line)
                    THEN n_commits + 1
                    ELSE n_commits
    /\ IF LineRaises(ReaderState, line) = "none"
       THEN UNCHANGED << reader_alive, reader_error >>
       ELSE AfterRaise(LineRaises(ReaderState, line))
    /\ last_op' = IF line.label = "---" THEN "sentinel" ELSE "readline"
    /\ UNCHANGED << esp32_running, now, linkRest >>

\* one iteration of the loop in which in_waiting or readline raises
LinkError(exc) ==
    /\ reader_alive
    /\ esp32_running
    /\ AfterRaise(exc)
    /\ last_op' = "read_error"
    /\ UNCHANGED << imuVars, readerVars, now, linkRest >>

\* five iterations of the loop that read the lines of a whole frame
LinkFrame(f) ==
    /\ reader_alive
    /\ esp32_running
    /\ n_commits < MaxFrames
    /\ SetReaderState(ReadLinesFn(ReaderState, f, now))
    /\ n_commits' = n_commits + 1
    /\ last_op' = "frame"
    /\ UNCHANGED << esp32_running, now, reader_alive, reader_error,
                    linkRest >>

\* close(), line 264: the shutdown clears the flag of the reader
LinkStop ==
    /\ esp32_running
    /\ esp32_running' = FALSE
    /\ last_op' = "flag_cleared"
    /\ UNCHANGED << imuVars, current_reading, n_commits, now, reader_alive,
                    reader_error, linkRest >>

\* the test of the while statement finds the flag cleared: the thread ends
LinkExit ==
    /\ reader_alive
    /\ ~esp32_running
    /\ reader_alive' = FALSE
    /\ last_op' = "reader_exit"
    /\ UNCHANGED << imuVars, readerVars, now, reader_error, linkRest >>

\* time passes
LinkClock ==
    /\ now < MaxNow
    /\ now' = now + TimeStep
    /\ last_op' = "time"
    /\ UNCHANGED << imuVars, readerVars, reader_alive, reader_error,
                    linkRest >>

NextLink ==
    \/ \E line \in ReaderLines : LinkRead(line)
    \/ \E exc \in { "SerialException", "OSError" } : LinkError(exc)
    \/ \E f \in LinkFrames : LinkFrame(f)
    \/ LinkStop
    \/ LinkExit
    \/ LinkClock

SpecLink == Init /\ [][NextLink]_vars

(***************************************************************************)
(* The shutdown of server.py statement by statement, while the control     *)
(* loop thread and the reader thread run: Ctrl+C or an exception ends the  *)
(* loop of the listener, and the finally clause calls robot.close().  The  *)
(* specification ends when close() has returned.                           *)
(***************************************************************************)
\* what can go wrong in one run: every write to a port raises, close() of a
\* port raises, or the ESP32 sends the beginning of a line and then nothing
CloseFaults ==
    { NoFault, << "nucleo", "write" >>, << "esp32", "write" >>,
      << "nucleo", "close" >>, << "esp32", "close" >>,
      << "esp32", "silent" >> }

\* the velocity command that arrives before the shutdown
CloseIntents == { << 10000, 0, 0 >> }

InitClose ==
    /\ InitState
    /\ esp32_running = TRUE
    /\ program = "server"
    /\ phase = "running"
    /\ fault \in CloseFaults
    /\ nucleo_log = << OpenEv >>
    /\ esp32_log = << "open" >>
    /\ control_started = TRUE
    /\ game = NewGame("blue")
    /\ n_steps = 0

\* a readline that has no timeout (a variant, not the program's)
ReadReturns_NoTimeout(arrived) == arrived

\* esp32_serial.readline() returns when the end of the line has arrived, or
\* when the timeout of the port is over
ReadReturns(arrived) == arrived \/ ReadTimeout > 0

\* esp32_thread.join(timeout=2) returns when the thread has ended, or when
\* the timeout is over
JoinReturns == ~reader_alive \/ JoinTimeout > 0

\* the handlers of close(), except Exception, catch what a write, a flush
\* or a close of a port raises
CloseCatches == TRUE

\* where close() goes on after a statement of one of its try blocks raised
AfterCloseRaise(next) == IF CloseCatches THEN next ELSE "raised"

\* a port after a write of the program: a write to a closed port, or one
\* that fails, raises and is caught by the caller, and nothing arrives
PortWrite(port, log, closed, tx) ==
    IF closed \in { log[i] : i \in DOMAIN log } \/ fault = << port, "write" >>
    THEN log
    ELSE log \o tx

\* what the steps of the shutdown leave alone
closeRest ==
    << drift_compensation_enabled, ball_collector_mode, acc_calls,
       pc_cmd, sv_args, n_calls, wrote_by, read_from, gyro_log, angleVars,
       program, phase, fault, control_started, game, gameHist,
       control_alive, imu_lock, tick_error, cur_heading, tk_drift, dr_hist >>

\* what belongs to the main thread, to the control loop and to the reader
mainSide ==
    << now, pc_main, running, server, desired_vx, desired_vy, desired_omega,
       last_command_time, target_heading, histVars, esp32_running >>

ctlLoop == << pc_ctl, cmd_vx, cmd_vy, cmd_omega, n_steps >>

rdLoop ==
    << pc_rd, reader_alive, reader_error, imuVars, current_reading,
       n_commits >>

\* a step in which the program writes these lines to the two ports
Writes(ntx, etx) ==
    /\ nucleo_tx' = ntx
    /\ esp32_tx' = etx
    /\ nucleo_log' = PortWrite("nucleo", nucleo_log, CloseEv, ntx)
    /\ esp32_log' = PortWrite("esp32", esp32_log, "close", etx)

\* the listener handles a velocity command
ClIntent(args) ==
    /\ pc_main = "serving"
    /\ SetVelocity(args[1], args[2], args[3])
    /\ UNCHANGED << acc_calls, extVars >>

\* Ctrl+C, lines 128-130: the flag of the control loop is cleared
ClInterrupt ==
    /\ pc_main = "serving"
    /\ running' = FALSE
    /\ server' = "stopped"
    /\ pc_main' = "l131"
    /\ last_op' = "interrupt"
    /\ Writes(<< >>, << >>)
    /\ UNCHANGED << now, desired_vx, desired_vy, desired_omega, last_command_time,
                    target_heading, histVars, esp32_running, ctlLoop, rdLoop,
                    closeRest >>

\* an exception that is not KeyboardInterrupt leaves the loop of the
\* listener: only the finally clause runs, and running stays True
ClCrash ==
    /\ pc_main = "serving"
    /\ server' = "stopped"
    /\ pc_main' = "l260"
    /\ last_op' = "exception"
    /\ Writes(<< >>, << >>)
    /\ UNCHANGED << now, running, desired_vx, desired_vy, desired_omega,
                    last_command_time, target_heading, histVars,
                    esp32_running, ctlLoop, rdLoop, closeRest >>

\* line 131: controller.stop()
ClStop ==
    /\ pc_main = "l131"
    /\ desired_vx' = 0
    /\ desired_vy' = 0
    /\ desired_omega' = 0
    /\ Writes(<< StopMsg >>, StopEsp32Tx)
    /\ pc_main' = "l260"
    /\ last_op' = "stop"
    /\ UNCHANGED << now, running, server, last_command_time, target_heading,
                    histVars, esp32_running, ctlLoop, rdLoop, closeRest >>

\* close(), lines 260-261: set_ball_collector('stop'), then the sleep
ClCollectorStop ==
    /\ pc_main = "l260"
    /\ now' = now + CloseSleep
    /\ Writes(<< >>, AccWrite("stop"))
    /\ pc_main' = "l264"
    /\ last_op' = "close260"
    /\ UNCHANGED << running, server, desired_vx, desired_vy, desired_omega,
                    last_command_time, target_heading, histVars,
                    esp32_running, ctlLoop, rdLoop, closeRest >>

\* close(), line 264: the flag of the reader is cleared
ClClearFlag ==
    /\ pc_main = "l264"
    /\ esp32_running' = FALSE
    /\ Writes(<< >>, << >>)
    /\ pc_main' = "l266"
    /\ last_op' = "close264"
    /\ UNCHANGED << now, running, server, desired_vx, desired_vy, desired_omega,
                    last_command_time, target_heading, histVars, ctlLoop,
                    rdLoop, closeRest >>

\* close(), lines 265-266: join(timeout=2) returns, at once when the
\* thread has ended and after the timeout when it has not
ClJoin ==
    /\ pc_main = "l266"
    /\ JoinReturns
    /\ now' = IF reader_alive THEN now + JoinTimeout ELSE now
    /\ Writes(<< >>, << >>)
    /\ pc_main' = "l271"
    /\ last_op' = "close266"
    /\ UNCHANGED << running, server, desired_vx, desired_vy, desired_omega,
                    last_command_time, target_heading, histVars,
                    esp32_running, ctlLoop, rdLoop, closeRest >>

\* close(), lines 271-272: STOP is written to the Nucleo and flushed
ClNucleoStop ==
    /\ pc_main = "l271"
    /\ Writes(<< StopMsg >>, << >>)
    /\ pc_main' = IF fault = << "nucleo", "write" >>
                  THEN AfterCloseRaise("l280")
                  ELSE "l273"
    /\ last_op' = "close271"
    /\ UNCHANGED << now, running, server, desired_vx, desired_vy, desired_omega,
                    last_command_time, target_heading, histVars,
                    esp32_running, ctlLoop, rdLoop, closeRest >>

\* close(), line 273: the port of the Nucleo is closed
ClNucleoClose ==
    /\ pc_main = "l273"
    /\ nucleo_tx' = << >>
    /\ esp32_tx' = << >>
    /\ IF fault = << "nucleo", "close" >>
       THEN /\ pc_main' = AfterCloseRaise("l280")
            /\ UNCHANGED nucleo_log
       ELSE /\ pc_main' = "l280"
            /\ nucleo_log' = Append(nucleo_log, CloseEv)
    /\ last_op' = "close273"
    /\ UNCHANGED << now, esp32_log, running, server, desired_vx, desired_vy,
                    desired_omega, last_command_time, target_heading,
                    histVars, esp32_running, ctlLoop, rdLoop, closeRest >>

\* close(), lines 280-281: S is written to the ESP32 and flushed
ClEsp32Stop ==
    /\ pc_main = "l280"
    /\ Writes(<< >>, << "S" >>)
    /\ pc_main' = IF fault = << "esp32", "write" >>
                  THEN AfterCloseRaise("done")
                  ELSE "l282"
    /\ last_op' = "close280"
    /\ UNCHANGED << now, running, server, desired_vx, desired_vy, desired_omega,
                    last_command_time, target_heading, histVars,
                    esp32_running, ctlLoop, rdLoop, closeRest >>

\* close(), line 282: the port of the ESP32 is closed, and close() returns
ClEsp32Close ==
    /\ pc_main = "l282"
    /\ nucleo_tx' = << >>
    /\ esp32_tx' = << >>
    /\ IF fault = << "esp32", "close" >>
       THEN /\ pc_main' = AfterCloseRaise("done")
            /\ UNCHANGED esp32_log
       ELSE /\ pc_main' = "done"
            /\ esp32_log' = Append(esp32_log, "close")
    /\ last_op' = "close282"
    /\ UNCHANGED << now, nucleo_log, running, server, desired_vx, desired_vy,
                    desired_omega, last_command_time, target_heading,
                    histVars, esp32_running, ctlLoop, rdLoop, closeRest >>

\* control_loop: the test of running, then update up to line 140; the
\* watchdog branch writes STOP at once; MaxSteps ticks at most
CtBegin ==
    /\ control_alive
    /\ running
    /\ pc_ctl = "idle"
    /\ n_steps < MaxSteps
    /\ n_steps' = n_steps + 1
    /\ IF WatchdogExpired
       THEN /\ Writes(<< StopMsg >>, << >>)
            /\ UNCHANGED << pc_ctl, cmd_vx, cmd_vy, cmd_omega >>
       ELSE /\ Writes(<< >>, << >>)
            /\ cmd_vx' = desired_vx
            /\ cmd_vy' = desired_vy
            /\ cmd_omega' = desired_omega + OmegaCorrection
            /\ pc_ctl' = "l143"
    /\ last_op' = "ct140"
    /\ UNCHANGED << mainSide, rdLoop, closeRest >>

\* update, line 143: the velocity command is written
CtSend ==
    /\ pc_ctl = "l143"
    /\ Writes(<< VelMsg(cmd_vx, cmd_vy, cmd_omega) >>, << >>)
    /\ cmd_vx' = 0
    /\ cmd_vy' = 0
    /\ cmd_omega' = 0
    /\ pc_ctl' = "idle"
    /\ last_op' = "ct143"
    /\ UNCHANGED << n_steps, mainSide, rdLoop, closeRest >>

\* the reader tests its flag (line 92): the loop goes on, or the thread
\* ends
RdTest ==
    /\ reader_alive
    /\ pc_rd = "idle"
    /\ IF esp32_running
       THEN /\ pc_rd' = "l94"
            /\ UNCHANGED reader_alive
       ELSE /\ pc_rd' = "ended"
            /\ reader_alive' = FALSE
    /\ last_op' = "rd92"
    /\ Writes(<< >>, << >>)
    /\ UNCHANGED << reader_error, imuVars, current_reading, n_commits,
                    mainSide, ctlLoop, closeRest >>

\* line 94: in_waiting raises on a closed port, and otherwise tells whether
\* bytes have arrived
RdPoll(arrived) ==
    /\ pc_rd = "l94"
    /\ IF "close" \in { esp32_log[i] : i \in DOMAIN esp32_log }
       THEN /\ AfterRaise("SerialException")
            /\ pc_rd' = IF ReaderCatches("SerialException")
                        THEN "idle"
                        ELSE "ended"
       ELSE /\ pc_rd' = IF arrived THEN "l95" ELSE "idle"
            /\ UNCHANGED << reader_alive, reader_error >>
    /\ last_op' = "rd94"
    /\ Writes(<< >>, << >>)
    /\ UNCHANGED << imuVars, current_reading, n_commits, mainSide, ctlLoop,
                    closeRest >>

\* line 95: readline returns, with the last line of a frame or with a line
\* that changes nothing; on a port closed meanwhile it raises
RdReturn(f) ==
    /\ pc_rd = "l95"
    /\ ReadReturns(fault # << "esp32", "silent" >>)
    /\ fault = << "esp32", "silent" >> => f = << >>
    /\ IF "close" \in { esp32_log[i] : i \in DOMAIN esp32_log }
       THEN /\ AfterRaise("SerialException")
            /\ UNCHANGED << imuVars, current_reading, n_commits >>
       ELSE /\ UNCHANGED << reader_alive, reader_error >>
            /\ IF f = << >> \/ n_commits >= MaxCommits
               THEN UNCHANGED << imuVars, current_reading, n_commits >>
               ELSE /\ SetReaderState(ReadLinesFn(ReaderState, f, now))
                    /\ n_commits' = n_commits + 1
    /\ pc_rd' = "idle"
    /\ last_op' = "rd95"
    /\ Writes(<< >>, << >>)
    /\ UNCHANGED << mainSide, ctlLoop, closeRest >>

\* the steps of close(), and those of the reader thread
CloseSteps ==
    \/ ClStop
    \/ ClCollectorStop
    \/ ClClearFlag
    \/ ClJoin
    \/ ClNucleoStop
    \/ ClNucleoClose
    \/ ClEsp32Stop
    \/ ClEsp32Close

ReaderSteps ==
    \/ RdTest
    \/ \E arrived \in BOOLEAN : RdPoll(arrived)
    \/ \E f \in TickFrames \cup { << >> } : RdReturn(f)

NextClose ==
    \/ \E args \in CloseIntents : ClIntent(args)
    \/ ClInterrupt
    \/ ClCrash
    \/ ClStop
    \/ ClCollectorStop
    \/ ClClearFlag
    \/ ClJoin
    \/ ClNucleoStop
    \/ ClNucleoClose
    \/ ClEsp32Stop
    \/ ClEsp32Close
    \/ CtBegin
    \/ CtSend
    \/ RdTest
    \/ \E arrived \in BOOLEAN : RdPoll(arrived)
    \/ \E f \in TickFrames \cup { << >> } : RdReturn(f)

SpecClose == InitClose /\ [][NextClose]_vars

\* the same when the main thread and the reader thread keep being
\* scheduled
SpecCloseLive ==
    /\ SpecClose
    /\ WF_vars(CloseSteps)
    /\ WF_vars(ReaderSteps)

(***************************************************************************)
(* Properties.                                                             *)
(***************************************************************************)
\* the motion command the last step wrote, when it wrote exactly one
Wrote(verb) == Len(nucleo_tx) = 1 /\ nucleo_tx[1].verb = verb

\* C1: a tick that runs when more than command_timeout has elapsed since the
\* last intent write (construction counts as the first) writes a stop
\* command to the motion controller and no velocity command.
C1_WatchdogStops ==
    (last_op = "update" /\ now - last_intent_at > CommandTimeout)
        => nucleo_tx = << StopMsg >>

C1_Witness ==
    /\ last_op = "update"
    /\ now - last_intent_at > CommandTimeout
    /\ last_intent # None
    /\ desired_vx # 0
    /\ nucleo_tx = << StopMsg >>

C3_LatchOnReturn ==
    [][ ( /\ last_op' = "set_velocity"
          /\ Abs(desired_omega') <= DeadbandSet
          /\ last_intent # None
          /\ Abs(last_intent[3]) > DeadbandSet )
            => target_heading' = Some(heading') ]_vars

\* C4: target_heading is None whenever |desired_omega| > 0.01.
C4_NoTargetWhileRotating ==
    Abs(desired_omega) > DeadbandSet => target_heading = None

\* C5: after an emergency stop and before a new VEL command, every tick
\* writes either a stop command or a velocity command whose vx, vy and
\* omega are all zero.
C5_StopTakesEffect ==
    (last_op = "update" /\ intent_src = "stop")
        => \/ nucleo_tx = << StopMsg >>
           \/ Wrote("VEL") /\ nucleo_tx[1].args = << 0, 0, 0 >>

\* C6: a tick that runs after a set_velocity(vx, vy, omega) call, with no
\* later write of the desired velocity and no more than command_timeout
\* after it, calls send_velocity_command with that vx, that vy and with an
\* omega that differs from that omega by at most max_correction.
C6_LatestIntentWins ==
    ( /\ last_op = "update"
      /\ intent_src = "set_velocity"
      /\ now - last_intent_at <= CommandTimeout )
        => /\ Wrote("VEL")
           /\ nucleo_tx[1].args[1] = last_intent[1]
           /\ nucleo_tx[1].args[2] = last_intent[2]
           /\ Abs(nucleo_tx[1].args[3] - last_intent[3]) <= MaxCorrection

C6_Witness ==
    /\ last_op = "update"
    /\ intent_src = "set_velocity"
    /\ now - last_intent_at = CommandTimeout
    /\ last_intent_at > StartTime
    /\ last_intent[1] # 0
    /\ Wrote("VEL")
    /\ nucleo_tx[1].args[3] # last_intent[3]

\* the last two operations on the accessory motor are two set_ball_collector
\* calls with the same mode
SamePair ==
    /\ Len(acc_calls) = 2
    /\ acc_calls[1].op = "set_ball_collector"
    /\ acc_calls[2].op = "set_ball_collector"
    /\ acc_calls[1].mode = acc_calls[2].mode

\* C7, as stated: of two set_ball_collector(m) calls in a row the second
\* writes nothing to the ESP32 and exactly one line is written for the pair.
C7_ExactlyOneWrite ==
    SamePair => /\ acc_calls[2].n = 0
                /\ acc_calls[1].n + acc_calls[2].n = 1

\* C7, amended: of two set_ball_collector(m) calls in a row the second writes
\* nothing to the ESP32; the first writes one line if the cached mode before
\* it differed from m and nothing if the cached mode was m already.
C7_Dedup ==
    SamePair => /\ acc_calls[2].n = 0
                /\ acc_calls[1].n =
                       IF acc_calls[1].cached = acc_calls[1].mode
                       THEN 0
                       ELSE 1

C7_Witness ==
    /\ SamePair
    /\ last_op = "set_ball_collector"
    /\ acc_calls[1].mode = "forward"
    /\ acc_calls[1].n = 1
    /\ acc_calls[2].n = 0

\* C8: the emergency stop leaves the desired velocity (0, 0, 0), writes a
\* stop command to the Nucleo and writes the stop code to the ESP32, also
\* when the cached collector mode is 'stop' already.
C8_EmergencyStop ==
    last_op = "stop"
        => /\ desired_vx = 0 /\ desired_vy = 0 /\ desired_omega = 0
           /\ nucleo_tx = << StopMsg >>
           /\ esp32_tx = << CommandMap["stop"] >>

C8_Witness ==
    /\ last_op = "stop"
    /\ ball_collector_mode = "stop"
    /\ last_intent # None
    /\ last_intent[1] # 0
    /\ esp32_tx = << "S" >>

\* a payload that is not a well-formed command: VEL with a field count other
\* than 4 or a field that is no number, COLLECTOR with a field count other
\* than 2 or an unknown mode, an unknown verb
Malformed(parts) ==
    \/ /\ parts[1] = "VEL"
       /\ \/ Len(parts) # 4
          \/ \E i \in 2..Len(parts) : ~IsFloat(parts[i])
    \/ /\ parts[1] = "COLLECTOR"
       /\ \/ Len(parts) # 2
          \/ Lower(parts[2]) \notin { "forward", "reverse", "stop" }
    \/ /\ parts[1] \in { "STOP", "RESET_HEADING", "STATUS" }
       /\ Len(parts) # 1
    \/ parts[1] \notin { "VEL", "STOP", "COLLECTOR", "RESET_HEADING",
                         "STATUS" }

\* the step of the listener for datagram d
Recv(d) ==
    \/ RecvVel(d)
    \/ RecvStop(d)
    \/ RecvCollector(d)
    \/ RecvResetHeading(d)
    \/ RecvStatus(d)
    \/ RecvRejected(d)
    \/ RecvUndecodable(d)

\* C9: the step that handles a datagram that is not a well-formed command
\* changes nothing of the controller or of the sensor state, leaves the
\* server running and writes nothing to either microcontroller.
C9_MalformedNoEffect ==
    [][ \A d \in Datagrams :
            (d.utf8 /\ Malformed(d.parts) /\ Recv(d))
                => /\ UNCHANGED << ctlVars, imuVars, server >>
                   /\ nucleo_tx' = << >>
                   /\ esp32_tx' = << >> ]_vars

C9_Witness ==
    /\ last_op = "rejected"
    /\ desired_vx # 0
    /\ target_heading # None
    /\ ball_collector_mode = "forward"
    /\ server = "running"

\* C10: the listener stops only on an operator interrupt; no datagram ends it.
C10_ListenerSurvives ==
    server = "stopped" => last_op = "interrupt"

\* C11: the vx, vy and omega a tick sends, and the omega its deadband test
\* reads, were all written by one and the same set_velocity call.
C11_IntentSnapshot ==
    last_op = "up143"
        => /\ read_from["vx"] = read_from["vy"]
           /\ read_from["vy"] = read_from["omega"]
           /\ read_from["omega"] = read_from["test"]

\* C12: every tick that sends a velocity command sends the desired vx and
\* vy, and an omega that differs from the desired omega by at most
\* max_correction.
C12_CorrectionClamp ==
    (last_op = "update" /\ Wrote("VEL"))
        => /\ nucleo_tx[1].args[1] = desired_vx
           /\ nucleo_tx[1].args[2] = desired_vy
           /\ Abs(nucleo_tx[1].args[3] - desired_omega) <= MaxCorrection

\* a tick whose correction was cut down to max_correction
C12_Witness ==
    /\ last_op = "update"
    /\ Wrote("VEL")
    /\ desired_vx # 0
    /\ target_heading # None
    /\ Abs(DriftGain * NormalizeAngle(target_heading[1] - heading)
             - DriftRate) > MaxCorrection
    /\ Abs(nucleo_tx[1].args[3] - desired_omega) = MaxCorrection

\* the last n elements of a sequence (all of it when it is shorter)
LastN(q, n) ==
    IF Len(q) <= n THEN q ELSE SubSeq(q, Len(q) - n + 1, Len(q))

\* the arithmetic mean of a sequence of numbers, 0 for the empty one
MeanOf(q) ==
    LET RECURSIVE Total(_)
        Total(r) == IF r = << >> THEN 0 ELSE Head(r) + Total(Tail(r))
    IN  IF q = << >> THEN 0 ELSE Total(q) \div Len(q)

\* C13: the drift history holds the gyro_z of the most recent min(n, 10)
\* commits since the last reset, oldest first, never more than 10 of them,
\* and get_drift_rate() is their arithmetic mean (0 when there are none).
C13_DriftHistory ==
    /\ Len(drift_history) <= DriftHistoryMaxLen
    /\ drift_history = LastN(gyro_log, DriftHistoryMaxLen)
    /\ DriftRate = MeanOf(LastN(gyro_log, DriftHistoryMaxLen))

\* more commits than the history holds, the evicted value differing from
\* the one that came in
C13_Witness ==
    /\ Len(gyro_log) > DriftHistoryMaxLen
    /\ gyro_log[1] # gyro_log[Len(gyro_log)]
    /\ Len(drift_history) = DriftHistoryMaxLen
    /\ DriftRate # 0

\* C14, as stated: the stored heading lies in the half-open interval
\* (-pi, pi].
C14_HeadingHalfOpen == -Pi < heading /\ heading <= Pi

\* C14, amended: the stored heading lies in the closed interval [-pi, pi];
\* an integrated angle of exactly -pi is stored as -pi, not as pi.
C14_HeadingClosed == -Pi <= heading /\ heading <= Pi

\* a commit that integrated the heading to exactly -pi
C14_Witness ==
    /\ last_op = "commit"
    /\ n_commits > 0
    /\ heading = -Pi

\* x is a whole multiple of a full turn
WholeTurns(x) == x % (2 * Pi) = 0

Added(old, new) == SubSeq(new, Len(old) + 1, Len(new))

\* a sequence of port events that holds a stop and ends with the close of
\* the port
StopThenClose(evs, stop, close) ==
    /\ evs # << >>
    /\ evs[Len(evs)] = close
    /\ \E i \in 1..(Len(evs) - 1) : evs[i] = stop

\* a sequence of port events that holds a stop and no close
StopNoClose(evs, stop, close) ==
    /\ \E i \in DOMAIN evs : evs[i] = stop
    /\ \A i \in DOMAIN evs : evs[i] # close

\* C16: the step by which server.py or main.py shuts down (Ctrl+C, an
\* exception leaving the loop, the loop ending) writes a stop to each port
\* on which nothing fails (STOP to the Nucleo, the stop code S to the
\* ESP32) and closes the port after it, also when the writes or the close
\* of the other port raise; a port whose close raises still gets its stop.
C16_ShutdownStops ==
    [][ (phase # "closed" /\ phase' = "closed")
          => LET nucleo == Added(nucleo_log, nucleo_log')
                 esp32 == Added(esp32_log, esp32_log')
             IN  /\ fault[1] # "nucleo"
                      => StopThenClose(nucleo, StopMsg, CloseEv)
                 /\ fault[1] # "esp32"
                      => StopThenClose(esp32, CommandMap["stop"], "close")
                 /\ fault = << "nucleo", "close" >>
                      => StopNoClose(nucleo, StopMsg, CloseEv)
                 /\ fault = << "esp32", "close" >>
                      => StopNoClose(esp32, CommandMap["stop"], "close") ]_vars

\* the server shut down by an exception while every write to the Nucleo
\* raises: the ESP32 got its stop code and was closed
C16_Witness ==
    /\ phase = "closed"
    /\ program = "server"
    /\ last_op = "undecodable"
    /\ fault = << "nucleo", "write" >>
    /\ desired_vx # 0
    /\ nucleo_log = << OpenEv >>
    /\ StopThenClose(esp32_log, "S", "close")

\* C17: when the Nucleo port or the ESP32 port cannot be opened the process
\* never runs: the control loop thread is not started, the reader thread
\* is not started, the game is not started, and nothing is written to
\* either port.
C17_ConnectionFatal ==
    (fault = << "nucleo", "open" >> \/ fault = << "esp32", "open" >>)
        => /\ phase \in { "start", "nucleo_open", "exited" }
           /\ ~control_started
           /\ ~esp32_running
           /\ game.state = "IDLE"
           /\ \A i \in DOMAIN nucleo_log : nucleo_log[i] = OpenEv
           /\ esp32_log = << >>

\* the ESP32 port could not be opened after the Nucleo port was
C17_Witness ==
    /\ phase = "exited"
    /\ fault = << "esp32", "open" >>
    /\ nucleo_log = << OpenEv >>
    /\ last_op = "connect_esp32"

\* C18: an update of GameLogic hands its velocity to the controller and
\* writes no velocity command to the Nucleo itself.
C18_ThroughController ==
    [][ last_op' = "game_update"
            => \A i \in DOMAIN nucleo_tx' : nucleo_tx'[i].verb # "VEL" ]_vars

\* the age from which the last committed frame counts as stale; the program
\* has no such threshold, and the watchdog's timeout stands in for it
StaleAfter == CommandTimeout

\* C19: a tick that runs when no frame was committed within the staleness
\* threshold adds no correction: the omega it sends is the desired omega.
C19_StaleSuppresses ==
    (last_op = "update" /\ Wrote("VEL")
        /\ now - last_heading_update > StaleAfter)
        => nucleo_tx[1].args[3] = desired_omega

\* C20: a heading reset leaves the heading 0, the drift history empty (so
\* the drift rate 0) and the target heading 0, and leaves the desired
\* velocity, last_command_time, the cached collector mode and the latest
\* sample as they were.
C20_ResetHeadingFrame ==
    [][ last_op' = "reset_heading"
            => /\ heading' = 0
               /\ drift_history' = << >>
               /\ DriftRate' = 0
               /\ target_heading' = Some(0)
               /\ UNCHANGED << desired_vx, desired_vy, desired_omega,
                               last_command_time, ball_collector_mode,
                               latest_imu >> ]_vars

\* a reset made while the robot is commanded to move with the collector
\* running, after a frame with a rotation rate was committed
C20_Witness ==
    /\ last_op = "reset_heading"
    /\ heading = 0
    /\ drift_history = << >>
    /\ target_heading = Some(0)
    /\ n_commits > 0
    /\ latest_imu.gyro_z # 0
    /\ desired_vx # 0
    /\ ball_collector_mode # "stop"

(***************************************************************************)
(* Properties of GameLogic.  In a state reached by an update, game_was is  *)
(* the object before the call, view the frame it was given and now the     *)
(* time.time() it read.                                                    *)
(***************************************************************************)
\* the last step was an update
Updated == last_op = "game_update"

\* the game time had run out when the last update was called
GameOver ==
    game_was.state # "IDLE" /\ now - game_was.game_start_time > GameDuration

\* the last step was an update whose state machine ran the branch of state
\* st: the game was in st and its time had not run out
Ran(st) == Updated /\ game_was.state = st /\ ~GameOver

\* the balls, and the goals of the target colour, of the last frame
BallsSeen == { view[i] : i \in { j \in DOMAIN view : view[j].label = "Ball" } }
GoalsSeen ==
    LET wanted == IF game_was.target_goal_color = "blue"
                  THEN "Blue Goal"
                  ELSE "Yellow Goal"
    IN  { view[i] : i \in { j \in DOMAIN view : view[j].label = wanted } }

\* the detections of a set that have the largest area of the set
LargestOf(ds) == { d \in ds : \A e \in ds : e.area <= d.area }

\* the last update wrote exactly one velocity command, with these values
SentVel(vx, vy, omega) == nucleo_tx = << VelMsg(vx, vy, omega) >>

\* C21: an update in SEARCH_BALL that sees balls targets one of the largest
\* area and ends in APPROACH_BALL; an update in APPROACH_BALL or
\* APPROACH_GOAL that steers, steers at a ball, or a goal of the target
\* colour, of the largest area in the frame it is given.
C21_LargestSelected ==
    /\ (Ran("SEARCH_BALL") /\ BallsSeen # { })
          => /\ game.state = "APPROACH_BALL"
             /\ Len(game.target_ball) = 1
             /\ game.target_ball[1] \in LargestOf(BallsSeen)
    /\ (Ran("APPROACH_BALL") /\ BallsSeen # { })
          => \E d \in LargestOf(BallsSeen) :
                IF d.area > CloseBallArea
                THEN game.state = "COLLECTING"
                ELSE SentVel(ApproachSpeed, 0,
                             ((FrameWidth \div 2) - d.center[1]) * ApproachKP)
    /\ (Ran("APPROACH_GOAL") /\ GoalsSeen # { }
            /\ game.state = "APPROACH_GOAL")
          => \E d \in LargestOf(GoalsSeen) :
                SentVel(ApproachSpeed, 0,
                        ((FrameWidth \div 2) - d.center[1]) * ApproachKP)

\* two balls in view while searching, the smaller one first: the larger one
\* is the target
C21_Witness ==
    /\ Ran("SEARCH_BALL")
    /\ Len(view) = 2
    /\ view[1].label = "Ball"
    /\ view[2].label = "Ball"
    /\ view[1].area < view[2].area
    /\ game.state = "APPROACH_BALL"
    /\ game.target_ball = << view[2] >>

\* the last update wrote this verb to the Nucleo at least once
WroteVerb(verb) == \E i \in DOMAIN nucleo_tx : nucleo_tx[i].verb = verb

\* C22 as stated: an update called in a state other than IDLE when the
\* game time has run out ends in IDLE, writes a motion stop and the stop
\* code of the accessory, and writes no velocity command; an update in
\* IDLE stays in IDLE and writes motion stops only.
C22_GameOverStops ==
    /\ (Updated /\ GameOver)
          => /\ game.state = "IDLE"
             /\ WroteVerb("STOP")
             /\ ~WroteVerb("VEL")
             /\ esp32_tx = << CommandMap["stop"] >>
    /\ (Updated /\ game_was.state = "IDLE")
          => /\ game.state = "IDLE"
             /\ nucleo_tx = << StopMsg >>
             /\ esp32_tx = << >>

\* C22, amended: the same, except that the stop code of the accessory is
\* written unless stop is the mode the game wrote last (the game was
\* started again and no update ran before its time ran out); either way
\* stop is then the last mode written.
C22_GameOverStopped ==
    /\ (Updated /\ GameOver)
          => /\ game.state = "IDLE"
             /\ WroteVerb("STOP")
             /\ ~WroteVerb("VEL")
             /\ esp32_tx = IF game_was.last_collector_mode = "stop"
                           THEN << >>
                           ELSE << CommandMap["stop"] >>
             /\ game.last_collector_mode = "stop"
    /\ (Updated /\ game_was.state = "IDLE")
          => /\ game.state = "IDLE"
             /\ nucleo_tx = << StopMsg >>
             /\ esp32_tx = << >>

\* the game time runs out while the robot is collecting a ball
C22_Witness ==
    /\ Updated
    /\ GameOver
    /\ game_was.state = "COLLECTING"
    /\ game_was.last_collector_mode = "forward"
    /\ game.state = "IDLE"
    /\ esp32_tx = << "S" >>
    /\ nucleo_tx = << StopMsg, StopMsg >>

\* C23: a tick that sends a velocity command adds the clamped correction to
\* omega exactly when drift compensation is enabled, the desired omega is
\* within the deadband (0.01 included) and a target heading is set, and
\* sends the desired omega otherwise.
C23_CorrectionIff ==
    (last_op = "update" /\ Wrote("VEL"))
        => nucleo_tx[1].args[3]
             = desired_omega
               + (IF /\ drift_compensation_enabled
                     /\ Abs(desired_omega) <= DeadbandSet
                     /\ target_heading # None
                  THEN Clamp(DriftGain
                               * NormalizeAngle(target_heading[1] - heading)
                             - DriftRate)
                  ELSE 0)

\* the code written last to the accessory motor, "" when none was
LastCode(log) ==
    LET at == { i \in DOMAIN log : log[i] \in { "R", "F", "S" } }
    IN  IF at = { }
        THEN ""
        ELSE log[CHOOSE i \in at : \A j \in at : j <= i]

\* C24: while the server runs and no write to the ESP32 fails, the mode the
\* controller caches is the mode written last to the accessory motor, so
\* that a call is suppressed only when the motor is in that mode already.
C24_CacheCoherent ==
    (program = "server" /\ phase = "running" /\ fault[1] # "esp32"
        /\ LastCode(esp32_log) # "")
        => CommandMap[ball_collector_mode] = LastCode(esp32_log)

\* the state changes of the state machine
Edges ==
    { << "SEARCH_BALL", "APPROACH_BALL" >>,
      << "APPROACH_BALL", "SEARCH_BALL" >>,
      << "APPROACH_BALL", "SEARCH_GOAL" >>,
      << "APPROACH_BALL", "COLLECTING" >>,
      << "COLLECTING", "SEARCH_BALL" >>,
      << "COLLECTING", "SEARCH_GOAL" >>,
      << "SEARCH_GOAL", "APPROACH_GOAL" >>,
      << "APPROACH_GOAL", "SEARCH_GOAL" >>,
      << "APPROACH_GOAL", "DEPOSITING" >>,
      << "DEPOSITING", "LEAVE_GOAL" >>,
      << "LEAVE_GOAL", "SEARCH_BALL" >> }

\* C25: a state change made by an update is one of Edges, or leads to IDLE
\* when the game time has run out; an update in IDLE stays in IDLE; the
\* start time of the state is the time of the update after a state change
\* and is left as it was otherwise.
C25_Topology ==
    Updated
        => /\ game.state # game_was.state
                => /\ \/ << game_was.state, game.state >> \in Edges
                      \/ GameOver /\ game.state = "IDLE"
                   /\ game.state_start_time = now
           /\ game.state = game_was.state
                => game.state_start_time = game_was.state_start_time
           /\ game_was.state = "IDLE" => game.state = "IDLE"

\* the deposit ends and the robot starts to leave the goal, some time after
\* the deposit began
C25_Witness ==
    /\ Updated
    /\ game_was.state = "DEPOSITING"
    /\ game.state = "LEAVE_GOAL"
    /\ game_was.state_start_time < now
    /\ game.state_start_time = now

\* one of the largest balls of the last frame is in the bottom region of
\* the frame (over its entire width), which is what update calls centered
SeenAtBottom ==
    \E d \in LargestOf(BallsSeen) :
        d.center[2] * 100 > FrameHeight * BottomThreshold

SteerAt(d) == ((FrameWidth \div 2) - d.center[1]) * ApproachKP

\* C27: an update in APPROACH_BALL that sees a ball goes to COLLECTING when
\* the area of the largest ball is above the closeness threshold, and
\* otherwise stays in APPROACH_BALL and sends the approach speed forward,
\* no strafe, and the steering towards the largest ball.
C27_ApproachBall ==
    (Ran("APPROACH_BALL") /\ BallsSeen # { })
        => \A d \in LargestOf(BallsSeen) :
              IF d.area > CloseBallArea
              THEN game.state = "COLLECTING"
              ELSE /\ game.state = "APPROACH_BALL"
                   /\ SentVel(ApproachSpeed, 0, SteerAt(d))

\* the larger of two balls is to the right of the centre: the robot drives
\* on and turns towards it
C27_Witness ==
    /\ Ran("APPROACH_BALL")
    /\ Cardinality(BallsSeen) = 2
    /\ game.state = "APPROACH_BALL"
    /\ \E d \in LargestOf(BallsSeen) :
          /\ d.center[1] > FrameWidth \div 2
          /\ SteerAt(d) < 0
          /\ SentVel(ApproachSpeed, 0, SteerAt(d))

\* C28: an update in COLLECTING sends the approach speed straight ahead
\* and leaves the collector in forward, whatever the frame shows; it leaves
\* the state exactly when more than the dwell time has passed since the
\* state was entered, adding one to balls_collected and going to
\* SEARCH_GOAL when the count reaches max_balls and to SEARCH_BALL
\* otherwise.
CollectingStep ==
    Ran("COLLECTING")
        => /\ SentVel(ApproachSpeed, 0, 0)
           /\ game.last_collector_mode = "forward"
           /\ esp32_tx = IF game_was.last_collector_mode = "forward"
                         THEN << >>
                         ELSE << CommandMap["forward"] >>
           /\ IF now - game_was.state_start_time > CollectTime
              THEN /\ game.balls_collected = game_was.balls_collected + 1
                   /\ game.state = IF game.balls_collected >= MaxBalls
                                   THEN "SEARCH_GOAL"
                                   ELSE "SEARCH_BALL"
              ELSE /\ game.state = "COLLECTING"
                   /\ game.balls_collected = game_was.balls_collected

\* ... and while updates keep being called and the clock advances,
\* COLLECTING is left (the clock of the model has two advances to spare).
C28_Collecting ==
    /\ []CollectingStep
    /\ (game.state = "COLLECTING" /\ n_steps + 2 <= MaxGameTicks)
          ~> game.state # "COLLECTING"

\* the dwell time is over while a goal and a ball are in view: the ball is
\* counted and the robot goes back to searching
C28_Witness ==
    /\ Ran("COLLECTING")
    /\ Len(view) = 2
    /\ now - game_was.state_start_time > CollectTime
    /\ game.balls_collected = game_was.balls_collected + 1
    /\ game.state = "SEARCH_BALL"
    /\ SentVel(ApproachSpeed, 0, 0)

\* the collector after an update that calls set_ball_collector(mode): the
\* mode is the cached one, and its code was written unless it was cached
\* before
Collector(mode) ==
    /\ game.last_collector_mode = mode
    /\ esp32_tx = IF game_was.last_collector_mode = mode
                  THEN << >>
                  ELSE << CommandMap[mode] >>

\* C29: an update in SEARCH_GOAL keeps the collector in forward; it goes to
\* APPROACH_GOAL exactly when the frame shows a goal of the target colour,
\* whatever else it shows, and otherwise stays and turns on the spot at the
\* search speed.
C29_SearchGoal ==
    Ran("SEARCH_GOAL")
        => /\ Collector("forward")
           /\ IF GoalsSeen # { }
              THEN game.state = "APPROACH_GOAL"
              ELSE /\ game.state = "SEARCH_GOAL"
                   /\ SentVel(0, 0, SearchRotationSpeed)

\* the own goal fills the frame: the robot keeps turning
C29_Witness ==
    /\ Ran("SEARCH_GOAL")
    /\ Len(view) = 1
    /\ view[1].label = "Yellow Goal"
    /\ game_was.target_goal_color = "blue"
    /\ game.state = "SEARCH_GOAL"
    /\ game.last_collector_mode = "forward"
    /\ SentVel(0, 0, SearchRotationSpeed)

\* C30 as stated: an update in APPROACH_GOAL goes to SEARCH_GOAL when the
\* frame shows no goal of the target colour, to DEPOSITING when the area of
\* the largest one is above the closeness threshold, and otherwise stays
\* and sends the approach speed with the steering towards that goal.
C30_ApproachGoal ==
    /\ (Ran("APPROACH_GOAL") /\ GoalsSeen = { })
          => game.state = "SEARCH_GOAL"
    /\ (Ran("APPROACH_GOAL") /\ GoalsSeen # { })
          => \A d \in LargestOf(GoalsSeen) :
                IF d.area > CloseGoalArea
                THEN game.state = "DEPOSITING"
                ELSE /\ game.state = "APPROACH_GOAL"
                     /\ SentVel(ApproachSpeed, 0, SteerAt(d))

\* the centre of a detection is within goal_center_tolerance of the centre
\* of the frame
Centred(d) == Abs(d.center[1] - (FrameWidth \div 2)) < GoalCenterTolerance

\* C30, amended: goal_was_centered is false when APPROACH_GOAL is entered
\* and from then on tells whether the largest goal was seen centred during
\* this approach; the update goes to DEPOSITING when the area of the
\* largest goal is above the threshold and the goal is or was centred, and
\* steers in every other case in which a goal is seen.
C30_ApproachGoalCentred ==
    /\ (Updated /\ game.state = "APPROACH_GOAL"
            /\ game_was.state # "APPROACH_GOAL")
          => ~game.goal_was_centered
    /\ (Ran("APPROACH_GOAL") /\ GoalsSeen = { })
          => game.state = "SEARCH_GOAL"
    /\ (Ran("APPROACH_GOAL") /\ GoalsSeen # { })
          => \A d \in LargestOf(GoalsSeen) :
                /\ game.goal_was_centered
                     = (game_was.goal_was_centered \/ Centred(d))
                /\ IF game.goal_was_centered /\ d.area > CloseGoalArea
                   THEN game.state = "DEPOSITING"
                   ELSE /\ game.state = "APPROACH_GOAL"
                        /\ SentVel(ApproachSpeed, 0, SteerAt(d))

\* a goal that fills the frame but was never centred: the robot keeps
\* steering towards it
C30_Witness ==
    /\ Ran("APPROACH_GOAL")
    /\ \E d \in LargestOf(GoalsSeen) :
          /\ d.area > CloseGoalArea
          /\ ~Centred(d)
          /\ SentVel(ApproachSpeed, 0, SteerAt(d))
    /\ ~game.goal_was_centered
    /\ game.state = "APPROACH_GOAL"

\* C31: an update in DEPOSITING leaves the collector in reverse and sends
\* the backward speed; when more than the deposit time has passed since
\* the state was entered it sets balls_collected to 0 and goes to
\* LEAVE_GOAL, and otherwise it stays.  An update in LEAVE_GOAL leaves the
\* collector in forward and turns on the spot at the search speed; it goes
\* to SEARCH_BALL when more than its duration has passed and otherwise
\* stays.  balls_collected becomes 0 from another value only by that
\* transition and by start_game.
C31_DepositAndLeave ==
    /\ Ran("DEPOSITING")
          => /\ Collector("reverse")
             /\ SentVel(DepositBackupSpeed, 0, 0)
             /\ IF now - game_was.state_start_time > DepositTime
                THEN /\ game.balls_collected = 0
                     /\ game.state = "LEAVE_GOAL"
                     /\ game.state_start_time = now
                ELSE /\ game.balls_collected = game_was.balls_collected
                     /\ game.state = "DEPOSITING"
    /\ Ran("LEAVE_GOAL")
          => /\ Collector("forward")
             /\ SentVel(0, 0, SearchRotationSpeed)
             /\ game.balls_collected = game_was.balls_collected
             /\ game.state = IF now - game_was.state_start_time > LeaveGoalTime
                             THEN "SEARCH_BALL"
                             ELSE "LEAVE_GOAL"
    /\ (game.balls_collected = 0 /\ game_was.balls_collected # 0)
          => \/ last_op = "start_game"
             \/ /\ Ran("DEPOSITING")
                /\ now - game_was.state_start_time > DepositTime

\* a full load is deposited: the dwell time is over, the count goes from
\* max_balls to 0 and the robot starts to leave the goal
C31_Witness ==
    /\ Ran("DEPOSITING")
    /\ now - game_was.state_start_time > DepositTime
    /\ game_was.balls_collected = MaxBalls
    /\ game.balls_collected = 0
    /\ game.state = "LEAVE_GOAL"
    /\ SentVel(DepositBackupSpeed, 0, 0)

\* C38: once the game has been started, balls_collected is between 0 and
\* max_balls; it equals max_balls in SEARCH_GOAL, APPROACH_GOAL and
\* DEPOSITING and is below max_balls in SEARCH_BALL, APPROACH_BALL and
\* COLLECTING.
C38_BallCount ==
    /\ game.balls_collected \in 0..MaxBalls
    /\ game.state \in { "SEARCH_GOAL", "APPROACH_GOAL", "DEPOSITING" }
          => game.balls_collected = MaxBalls
    /\ game.state \in { "SEARCH_BALL", "APPROACH_BALL", "COLLECTING" }
          => game.balls_collected < MaxBalls

\* the last ball of a load is counted when its dwell time is over: the
\* count reaches max_balls and the robot turns to the goal
C38_Witness ==
    /\ Ran("COLLECTING")
    /\ game_was.balls_collected = MaxBalls - 1
    /\ game.balls_collected = MaxBalls
    /\ game.state = "SEARCH_GOAL"

\* C39: only set_velocity writes last_command_time: set_ball_collector,
\* reset_heading, stop, the status report, a rejected command and update
\* leave it as it is, so it is always the time of the last set_velocity
\* (of the construction before the first), and an update that runs more
\* than command_timeout after it writes a stop whatever other commands
\* arrived in between.
C39_OnlyIntentRefreshes ==
    [][ /\ last_op' \in { "set_ball_collector", "reset_heading", "stop",
                         "status", "rejected", "update" }
             => UNCHANGED last_command_time
        /\ last_command_time' # last_command_time
             => /\ last_op' = "set_velocity"
                /\ last_command_time' = now
        /\ last_command_time' = last_intent_at'
        /\ (last_op' = "update" /\ now' - last_intent_at' > CommandTimeout)
             => nucleo_tx' = << StopMsg >> ]_vars

\* the collector is switched on more than command_timeout after the last
\* velocity command, which asked for a movement: the time of the watchdog
\* is still that of the velocity command
C39_Witness ==
    /\ last_op = "set_ball_collector"
    /\ esp32_tx # << >>
    /\ last_intent # None
    /\ desired_vx # 0
    /\ last_command_time = last_intent_at
    /\ now - last_command_time > CommandTimeout

\* C35: while the server runs the control loop thread stays alive and keeps
\* calling update: no write to the Nucleo that fails and no exception
\* raised inside update ends it.
C35_ControlLoopSurvives == server = "running" => control_alive

\* C36: no update fails because set_velocity cleared the target heading
\* between the test of line 128 and the subtraction of line 130: every
\* update that started completes.
C36_TickSafeAgainstSetVelocity == tick_error # "TypeError"

\* C37: get_drift_rate never divides by the length of a history emptied
\* after its test; what it returns is the mean of the history as it was at
\* one moment of the call; and it reads the history only while no commit
\* and no reset is under way.
C37_DriftRateSafe ==
    /\ tick_error # "ZeroDivisionError"
    /\ (last_op = "tk199len" /\ tick_error = "none")
          => tk_drift \in { DriftRateOf(dr_hist), DriftRateOf(drift_history) }
    /\ last_op \in { "tk197", "tk199sum", "tk199len" } => imu_lock = "free"

\* the values of a whole frame, as latest_imu holds them once committed
FrameValues(f) ==
    [ timestamp |-> IntOf[f[1].toks[1]],
      accel_x |-> FloatOf[f[2].toks[1]],
      accel_y |-> FloatOf[f[2].toks[2]],
      accel_z |-> FloatOf[f[2].toks[3]],
      gyro_x |-> FloatOf[f[3].toks[1]],
      gyro_y |-> FloatOf[f[3].toks[2]],
      gyro_z |-> FloatOf[f[3].toks[3]],
      temp_c |-> FloatOf[f[4].toks[1]] ]

\* C32: the reader thread ends only when its flag has been cleared; an
\* iteration that reads a line that does not match, a number float()
\* rejects, or whose read raises, leaves the thread alive; and whatever
\* came before, a whole frame read afterwards is committed with its own
\* values.
C32_ReaderSurvives ==
    [][ /\ (reader_alive /\ ~reader_alive')
             => (~esp32_running /\ last_op' = "reader_exit")
        /\ last_op' \in { "readline", "sentinel", "read_error" }
             => reader_alive'
        /\ \A f \in LinkFrames :
              LinkFrame(f)
                 => /\ latest_imu' = FrameValues(f)
                    /\ last_heading_update' = now
                    /\ n_commits' = n_commits + 1
                    /\ current_reading' = EmptyReading
                    /\ reader_alive' ]_vars

\* a whole frame is committed after a read of the port has failed
C32_Witness ==
    /\ last_op = "frame"
    /\ reader_alive
    /\ reader_error \in { "SerialException", "OSError" }
    /\ latest_imu = FrameValues(Frame("-0.5"))
    /\ current_reading = EmptyReading
    /\ n_commits = 1

\* a port has been closed: close() of the port was called and returned
HasClosed(log, ev) == ev \in { log[i] : i \in DOMAIN log }

\* the statements of the shutdown the main thread may go to from each one:
\* no way to the end goes around the block of either port
CloseOrder ==
    { << "serving", "l131" >>, << "serving", "l260" >>,
      << "l131", "l260" >>, << "l260", "l264" >>, << "l264", "l266" >>,
      << "l266", "l271" >>, << "l271", "l273" >>, << "l271", "l280" >>,
      << "l273", "l280" >>, << "l280", "l282" >>, << "l280", "done" >>,
      << "l282", "done" >> }

C34_ShutdownFinal ==
    [][ /\ (pc_main \in { "l273", "l280", "l282", "done" }
              /\ Len(nucleo_log') > Len(nucleo_log))
             => nucleo_log'[Len(nucleo_log')].verb # "VEL"
        /\ \A i \in DOMAIN nucleo_log' :
              nucleo_log'[i] = CloseEv => nucleo_log'[i - 1] = StopMsg ]_vars

====
